---- MODULE Spec2Model ----
(***************************************************************************)
(* The Endurance schedulers: the greedy priority scheduler                 *)
(* (EnduranceSimpleScheduler) and the time-indexed exact scheduler         *)
(* (EnduranceMILPScheduler) over EnduranceTask / EnduranceResource.        *)
(*                                                                         *)
(* Time is counted in ticks; TicksPerMinute ticks make one minute, so the  *)
(* exact scheduler's conversions to whole minutes truncate.                *)
(***************************************************************************)
EXTENDS Integers, Sequences, FiniteSets, TLC

\* ---------------------------------------------------------------- bounds
TicksPerMinute == 2
\* window times of the freely chosen inputs range over 0..MaxTime
MaxTime == 3
\* the scheduling epoch 'now' of the freely chosen inputs ranges over 0..MaxNow
MaxNow == 2
\* the scenarios are run at base_time .. base_time + MaxDrift ticks
MaxDrift == 3
\* resource amounts and capacities of the freely chosen inputs
MaxAmount == 2
MaxCapacity == 2
\* the solver returns within MaxSolveTime ticks
MaxSolveTime == 1
\* largest magnitude of a resource value explored
MaxValue == 4
\* largest magnitude of a rate set on a resource
MaxRate == 1
\* most task constraints added to one task
MaxConstraints == 2
\* priorities of the tasks given to the pending queue range over 1..MaxPriority
MaxPriority == 2

\* float('inf')
Inf == 1000000

\* ------------------------------------------------------------ small helpers
None == <<>>
Some(v) == <<v>>
Val(o) == o[1]

Max(a, b) == IF a >= b THEN a ELSE b
Min(a, b) == IF a <= b THEN a ELSE b

Minutes(n) == n * TicksPerMinute

Front(s) == SubSeq(s, 1, Len(s) - 1)
Last(s) == s[Len(s)]

RECURSIVE Concat(_)
Concat(ss) == IF ss = <<>> THEN <<>> ELSE Concat(Front(ss)) \o Last(ss)

\* float subtraction where the left operand may be inf
FloatMinus(a, b) == IF a = Inf THEN Inf ELSE a - b

\* ------------------------------------------------------------ domain model
START_AFTER_END == "start_after_end"
CONTAINED == "contained"

TaskConstraint(type, target) ==
    [constraint_type |-> type, target_task_id |-> target, metadata |-> <<>>]

ResourceConstraint(rid, mn, mx) ==
    [resource_id |-> rid, min_amount |-> mn, max_amount |-> mx, metadata |-> <<>>]

PENDING == "pending"
SCHEDULED == "scheduled"

EnduranceTask(id, st, en, mn, mx, pf, prio, tcs, rcs) ==
    [id |-> id, start_time |-> st, end_time |-> en,
     min_duration |-> mn, max_duration |-> mx, preferred_duration |-> pf,
     priority |-> prio, task_constraints |-> tcs, resource_constraints |-> rcs,
     resource_impacts |-> <<>>, status |-> PENDING]

\* EnduranceTask.__post_init__ accepts the task
TaskValid(t) ==
    /\ t.start_time < t.end_time
    /\ t.max_duration <= t.end_time - t.start_time
    /\ t.min_duration <= t.max_duration
    /\ t.min_duration <= t.preferred_duration
    /\ t.preferred_duration <= t.max_duration

INTEGER == "integer"
CUMULATIVE_RATE == "cumulative_rate"
AVAILABLE == "available"
IN_USE == "in_use"

\* an Integer resource after construction and allocate(cur)
IntegerResource(id, cap, cur) ==
    [id |-> id, resource_type |-> INTEGER, max_capacity |-> Some(cap),
     initial_value |-> None, min_value |-> None, max_value |-> None,
     current_value |-> cur, rate |-> 0,
     status |-> IF cur >= cap THEN IN_USE ELSE AVAILABLE]

\* a CumulativeRate resource after construction and allocate(cur - init)
CumulativeRateResource(id, init, mn, mx, cur) ==
    [id |-> id, resource_type |-> CUMULATIVE_RATE, max_capacity |-> None,
     initial_value |-> Some(init), min_value |-> mn, max_value |-> mx,
     current_value |-> cur, rate |-> 0, status |-> AVAILABLE]

available_capacity(r) ==
    IF r.resource_type = INTEGER
    THEN Val(r.max_capacity) - r.current_value
    ELSE IF r.max_value # None THEN Val(r.max_value) - r.current_value ELSE Inf

OFFLINE == "offline"

\* _validate_configuration: the error raised by the constructor, or "none"
validate_configuration(r) ==
    IF r.resource_type = INTEGER
    THEN IF r.max_capacity = None THEN "INTEGER resources must have max_capacity"
         ELSE IF Val(r.max_capacity) <= 0 THEN "max_capacity must be positive"
         ELSE "none"
    ELSE IF r.initial_value = None
         THEN "CUMULATIVE_RATE resources must have initial_value"
         ELSE IF r.min_value # None /\ r.max_value # None
                 /\ Val(r.min_value) > Val(r.max_value)
              THEN "min_value cannot exceed max_value"
              ELSE "none"

\* _initialize_state: the value is set from the type, whatever state was passed
initialize_state(r) ==
    [r EXCEPT !.current_value =
                  IF r.resource_type = INTEGER THEN 0
                  ELSE IF r.initial_value # None THEN Val(r.initial_value) ELSE 0]

\* EnduranceResource(...): __post_init__ validates, then initialises the state
NewResource(fields) ==
    IF validate_configuration(fields) # "none"
    THEN [raised |-> validate_configuration(fields)]
    ELSE [raised |-> "none", resource |-> initialize_state(fields)]

can_allocate(r, amount) ==
    IF r.status # AVAILABLE THEN FALSE
    ELSE IF r.resource_type = INTEGER
         THEN r.current_value + amount <= Val(r.max_capacity)
         ELSE LET new_value == r.current_value + amount
              IN IF r.min_value # None /\ new_value < Val(r.min_value) THEN FALSE
                 ELSE IF r.max_value # None /\ new_value > Val(r.max_value) THEN FALSE
                 ELSE TRUE

\* allocate: the returned flag and the resource afterwards
allocate(r, amount) ==
    IF ~can_allocate(r, amount) THEN [returned |-> FALSE, resource |-> r]
    ELSE LET value == r.current_value + amount
         IN [returned |-> TRUE,
             resource |-> [r EXCEPT !.current_value = value,
                                    !.status = IF r.resource_type = INTEGER
                                                  /\ value >= Val(r.max_capacity)
                                               THEN IN_USE ELSE r.status]]

\* deallocate: the returned flag and the resource afterwards
deallocate(r, amount) ==
    IF r.resource_type = INTEGER /\ r.current_value < amount
    THEN [returned |-> FALSE, resource |-> r]
    ELSE LET value == r.current_value - amount
         IN [returned |-> TRUE,
             resource |-> [r EXCEPT !.current_value = value,
                                    !.status = IF r.resource_type = INTEGER
                                                  /\ value < Val(r.max_capacity)
                                                  /\ r.status = IN_USE
                                               THEN AVAILABLE ELSE r.status]]

set_rate(r, rate) ==
    IF r.resource_type = CUMULATIVE_RATE THEN [r EXCEPT !.rate = rate] ELSE r

update_value(r, delta_time) ==
    IF r.resource_type # CUMULATIVE_RATE THEN r
    ELSE LET raw == r.current_value + r.rate * delta_time
             low == IF r.min_value # None THEN Max(raw, Val(r.min_value)) ELSE raw
             new_value == IF r.max_value # None THEN Min(low, Val(r.max_value)) ELSE low
         IN [r EXCEPT !.current_value = new_value]

is_within_bounds(r) ==
    IF r.resource_type = INTEGER
    THEN 0 <= r.current_value /\ r.current_value <= Val(r.max_capacity)
    ELSE IF r.min_value # None /\ r.current_value < Val(r.min_value) THEN FALSE
         ELSE IF r.max_value # None /\ r.current_value > Val(r.max_value) THEN FALSE
         ELSE TRUE

\* EnduranceResource.to_dict: enums by their value, the state nested
Resource_to_dict(r) ==
    [id |-> r.id, resource_type |-> r.resource_type,
     max_capacity |-> r.max_capacity, initial_value |-> r.initial_value,
     min_value |-> r.min_value, max_value |-> r.max_value,
     current_state |-> [current_value |-> r.current_value, rate |-> r.rate],
     status |-> r.status]

\* EnduranceResource.from_dict: a ResourceState from the nested state, then
\* the constructor
Resource_from_dict(data) ==
    NewResource([id |-> data.id, resource_type |-> data.resource_type,
                 max_capacity |-> data.max_capacity,
                 initial_value |-> data.initial_value,
                 min_value |-> data.min_value, max_value |-> data.max_value,
                 current_value |-> data.current_state.current_value,
                 rate |-> data.current_state.rate,
                 status |-> data.status])

\* the resource as _initialize_state leaves it
Unallocated(r) ==
    [r EXCEPT !.current_value =
                  IF r.resource_type = INTEGER THEN 0
                  ELSE IF r.initial_value # None THEN Val(r.initial_value) ELSE 0,
              !.status = AVAILABLE]

\* ------------------------------------------------------------ results
SUCCESS == "success"
FAILED == "failed"
PARTIAL == "partial"
TIMEOUT == "timeout"

create_schedule_result(status, schedule, unscheduled, message) ==
    [status |-> status, schedule |-> schedule,
     unscheduled_tasks |-> unscheduled, message |-> message]

total_scheduled_tasks(res) == Len(res.schedule)
total_unscheduled_tasks(res) == Len(res.unscheduled_tasks)
total_tasks(res) == total_scheduled_tasks(res) + total_unscheduled_tasks(res)

\* a quotient of two naturals in lowest terms, <<numerator, denominator>>
RECURSIVE GCD(_, _)
GCD(a, b) == IF b = 0 THEN a ELSE GCD(b, a % b)
Quotient(n, d) == <<n \div GCD(n, d), d \div GCD(n, d)>>

\* as success_rate, without the test for an empty result: 0 / 0
success_rate_Unguarded(res) ==
    IF total_tasks(res) = 0 THEN <<0, 0>>
    ELSE Quotient(total_scheduled_tasks(res), total_tasks(res))

\* EnduranceScheduleResult.success_rate
success_rate(res) ==
    IF total_tasks(res) = 0 THEN <<0, 1>>
    ELSE Quotient(total_scheduled_tasks(res), total_tasks(res))

\* ------------------------------------------------------------ validation
TaskErrors(t) ==
    (IF t.start_time >= t.end_time
     THEN << <<"Task", t.id, "has invalid time window">> >> ELSE <<>>)
    \o (IF t.min_duration > t.max_duration
        THEN << <<"Task", t.id, "has invalid duration constraints">> >> ELSE <<>>)
    \o (IF ~(t.min_duration <= t.preferred_duration
             /\ t.preferred_duration <= t.max_duration)
        THEN << <<"Task", t.id, "preferred duration out of bounds">> >> ELSE <<>>)
    \o (IF t.max_duration > t.end_time - t.start_time
        THEN << <<"Task", t.id, "max duration exceeds time window">> >> ELSE <<>>)

ResourceErrors(r) ==
    (IF r.resource_type = INTEGER /\ r.max_capacity = None
     THEN << <<"Integer resource", r.id, "missing max_capacity">> >> ELSE <<>>)
    \o (IF r.resource_type = CUMULATIVE_RATE /\ r.initial_value = None
        THEN << <<"Cumulative rate resource", r.id, "missing initial_value">> >>
        ELSE <<>>)

validate_inputs(ts, rs) ==
    (IF ts = <<>> THEN << <<"No tasks provided">> >> ELSE <<>>)
    \o (IF rs = <<>> THEN << <<"No resources provided">> >> ELSE <<>>)
    \o Concat([i \in 1..Len(ts) |-> TaskErrors(ts[i])])
    \o Concat([i \in 1..Len(rs) |-> ResourceErrors(rs[i])])

\* ------------------------------------------------------------ greedy scheduler
\* the tasks in input order
SortedByPriority_InputOrder(ts) == ts

\* as SortedByPriority, but a task goes before the earlier tasks of its priority
RECURSIVE SortedByPriority_TiesReversed(_)
SortedByPriority_TiesReversed(ts) ==
    IF ts = <<>> THEN <<>>
    ELSE LET rest == SortedByPriority_TiesReversed(Front(ts))
             t == Last(ts)
             k == Cardinality({i \in 1..Len(rest) : rest[i].priority < t.priority})
         IN SubSeq(rest, 1, k) \o <<t>> \o SubSeq(rest, k + 1, Len(rest))

\* sorted(tasks, key=lambda t: t.priority): stable
RECURSIVE SortedByPriority(_)
SortedByPriority(ts) ==
    IF ts = <<>> THEN <<>>
    ELSE LET rest == SortedByPriority(Front(ts))
             t == Last(ts)
             k == Cardinality({i \in 1..Len(rest) : rest[i].priority <= t.priority})
         IN SubSeq(rest, 1, k) \o <<t>> \o SubSeq(rest, k + 1, Len(rest))

\* the first scheduled task with the given id, as a sequence of length <= 1
FindScheduled(scheduled, id) ==
    LET hits == {i \in 1..Len(scheduled) : scheduled[i].task_id = id}
    IN IF hits = {} THEN None
       ELSE Some(scheduled[CHOOSE i \in hits : \A j \in hits : i <= j])

\* as StartAfterEndErrors, but a target that was not placed is no error
StartAfterEndErrors_MissingTargetPasses(task, c, scheduled) ==
    LET target_task == FindScheduled(scheduled, c.target_task_id)
    IN IF target_task = None THEN <<>>
       ELSE IF task.start_time < Val(target_task).end_time
            THEN << <<"Task", task.id, "cannot start after task", c.target_task_id>> >>
            ELSE <<>>

StartAfterEndErrors(task, c, scheduled) ==
    LET target_task == FindScheduled(scheduled, c.target_task_id)
    IN IF target_task = None
       THEN << <<"Task", task.id, "depends on unscheduled task", c.target_task_id>> >>
       ELSE IF task.start_time < Val(target_task).end_time
            THEN << <<"Task", task.id, "cannot start after task", c.target_task_id>> >>
            ELSE <<>>

\* as ContainedErrors, but a target that is not in the schedule gives no error
ContainedErrors_MissingTargetPasses(task, c, scheduled) ==
    LET target_task == FindScheduled(scheduled, c.target_task_id)
    IN IF target_task = None THEN <<>>
       ELSE IF \/ task.start_time < Val(target_task).start_time
               \/ task.end_time > Val(target_task).end_time
            THEN << <<"Task", task.id, "is not contained within task", c.target_task_id>> >>
            ELSE <<>>

ContainedErrors(task, c, scheduled) ==
    LET target_task == FindScheduled(scheduled, c.target_task_id)
    IN IF target_task = None
       THEN << <<"Task", task.id, "depends on unscheduled task", c.target_task_id>> >>
       ELSE IF \/ task.start_time < Val(target_task).start_time
               \/ task.end_time > Val(target_task).end_time
            THEN << <<"Task", task.id, "is not contained within task", c.target_task_id>> >>
            ELSE <<>>

check_task_constraints(task, scheduled) ==
    Concat([i \in 1..Len(task.task_constraints) |->
        LET c == task.task_constraints[i]
        IN IF c.constraint_type = START_AFTER_END
           THEN StartAfterEndErrors(task, c, scheduled)
           ELSE IF c.constraint_type = CONTAINED
                THEN ContainedErrors(task, c, scheduled)
                ELSE <<>>])

\* as current_usage, but the amounts of the tasks placed so far are not counted
current_usage_NothingCounted(scheduled, rid) == 0

\* current_usage.get(resource_id, 0.0) over the tasks placed so far
RECURSIVE current_usage(_, _)
current_usage(scheduled, rid) ==
    IF scheduled = <<>> THEN 0
    ELSE current_usage(Front(scheduled), rid)
         + (IF rid \in DOMAIN Last(scheduled).resource_allocations
            THEN Last(scheduled).resource_allocations[rid] ELSE 0)

\* comparing max_amount with a max_capacity of None raises TypeError
ResourceCheckRaises(mgr, task) ==
    /\ mgr.set
    /\ \E i \in 1..Len(task.resource_constraints) :
          LET rid == task.resource_constraints[i].resource_id
          IN /\ rid \in DOMAIN mgr.resources
             /\ mgr.resources[rid].max_capacity = None

ResourceConstraintErrors(mgr, c, scheduled) ==
    LET rid == c.resource_id
    IN IF rid \notin DOMAIN mgr.resources
       THEN << <<"Resource", rid, "not found">> >>
       ELSE LET resource == mgr.resources[rid]
                available == FloatMinus(available_capacity(resource),
                                        current_usage(scheduled, rid))
            IN (IF c.min_amount > available
                THEN << <<"Resource", rid, "cannot provide minimum amount">> >>
                ELSE <<>>)
               \o (IF c.max_amount > Val(resource.max_capacity)
                   THEN << <<"Resource", rid, "max amount exceeds capacity">> >>
                   ELSE <<>>)

check_resource_constraints(mgr, task, scheduled) ==
    IF ~mgr.set THEN <<>>
    ELSE Concat([i \in 1..Len(task.resource_constraints) |->
             ResourceConstraintErrors(mgr, task.resource_constraints[i], scheduled)])

\* scheduled_task.resource_allocations[resource_id] = constraint.min_amount,
\* a later constraint on the same resource overwriting an earlier one
ResourceAllocations(task) ==
    LET rcs == task.resource_constraints
        rids == {rcs[i].resource_id : i \in 1..Len(rcs)}
    IN [rid \in rids |->
          rcs[CHOOSE i \in 1..Len(rcs) :
                /\ rcs[i].resource_id = rid
                /\ \A j \in 1..Len(rcs) : rcs[j].resource_id = rid => j <= i].min_amount]

\* EnduranceScheduledTask.__post_init__ raises ValueError
ScheduledTaskRaises(start_time, end_time, duration) ==
    \/ start_time >= end_time
    \/ end_time - start_time # duration

EnduranceScheduledTask(task, start_time, end_time, duration) ==
    [task_id |-> task.id, start_time |-> start_time, end_time |-> end_time,
     duration |-> duration, priority |-> task.priority,
     resource_allocations |-> ResourceAllocations(task)]

NotPlaced == [kind |-> "none"]
Raises(e) == [kind |-> "raise", exception |-> e]
Placed(st) == [kind |-> "placed", scheduled_task |-> st]

\* the task's StartAfterEnd and Contained checks pass
TaskConstraintsPass(task, scheduled) == check_task_constraints(task, scheduled) = <<>>

\* as try_schedule_task, but the task starts at its window's start wherever
\* the cursor is
try_schedule_task_FromWindowStart(mgr, task, current_time, scheduled) ==
    IF current_time > task.end_time THEN NotPlaced
    ELSE LET start_time == task.start_time
             available_time == task.end_time - start_time
         IN IF available_time < task.min_duration THEN NotPlaced
            ELSE LET duration == IF available_time >= task.preferred_duration
                                 THEN task.preferred_duration
                                 ELSE available_time
                     end_time == start_time + duration
                 IN IF ~TaskConstraintsPass(task, scheduled) THEN NotPlaced
                    ELSE IF ResourceCheckRaises(mgr, task) THEN Raises("TypeError")
                    ELSE IF check_resource_constraints(mgr, task, scheduled) # <<>>
                         THEN NotPlaced
                    ELSE IF ScheduledTaskRaises(start_time, end_time, duration)
                         THEN Raises("ValueError")
                    ELSE Placed(EnduranceScheduledTask(task, start_time, end_time, duration))

\* as try_schedule_task, but the preferred duration is used whenever the
\* minimum fits, also when the preferred one does not
try_schedule_task_AlwaysPreferred(mgr, task, current_time, scheduled) ==
    IF current_time > task.end_time THEN NotPlaced
    ELSE LET start_time == Max(current_time, task.start_time)
             available_time == task.end_time - start_time
         IN IF available_time < task.min_duration THEN NotPlaced
            ELSE LET duration == task.preferred_duration
                     end_time == start_time + duration
                 IN IF ~TaskConstraintsPass(task, scheduled) THEN NotPlaced
                    ELSE IF ResourceCheckRaises(mgr, task) THEN Raises("TypeError")
                    ELSE IF check_resource_constraints(mgr, task, scheduled) # <<>>
                         THEN NotPlaced
                    ELSE IF ScheduledTaskRaises(start_time, end_time, duration)
                         THEN Raises("ValueError")
                    ELSE Placed(EnduranceScheduledTask(task, start_time, end_time, duration))

try_schedule_task(mgr, task, current_time, scheduled) ==
    IF current_time > task.end_time THEN NotPlaced
    ELSE LET start_time == Max(current_time, task.start_time)
             available_time == task.end_time - start_time
         IN IF available_time < task.min_duration THEN NotPlaced
            ELSE LET duration == IF available_time >= task.preferred_duration
                                 THEN task.preferred_duration
                                 ELSE available_time
                     end_time == start_time + duration
                 IN IF ~TaskConstraintsPass(task, scheduled) THEN NotPlaced
                    ELSE IF ResourceCheckRaises(mgr, task) THEN Raises("TypeError")
                    ELSE IF check_resource_constraints(mgr, task, scheduled) # <<>>
                         THEN NotPlaced
                    ELSE IF ScheduledTaskRaises(start_time, end_time, duration)
                         THEN Raises("ValueError")
                    ELSE Placed(EnduranceScheduledTask(task, start_time, end_time, duration))

\* one iteration of the placement loop on the run's local state
\* as GreedyStep, but the cursor stays where it is after a placement
GreedyStep_CursorKept(mgr, run, task) ==
    LET out == try_schedule_task(mgr, task, run.current_time, run.scheduled_tasks)
    IN IF out.kind = "raise"
       THEN [run EXCEPT !.raised = out.exception]
       ELSE IF out.kind = "placed"
            THEN [run EXCEPT !.scheduled_tasks = Append(@, out.scheduled_task)]
            ELSE [run EXCEPT !.unscheduled_tasks = Append(@, task.id)]

GreedyStep(mgr, run, task) ==
    LET out == try_schedule_task(mgr, task, run.current_time, run.scheduled_tasks)
    IN IF out.kind = "raise"
       THEN [run EXCEPT !.raised = out.exception]
       ELSE IF out.kind = "placed"
            THEN [run EXCEPT
                    !.scheduled_tasks = Append(@, out.scheduled_task),
                    !.current_time = Max(@, out.scheduled_task.end_time)]
            ELSE [run EXCEPT !.unscheduled_tasks = Append(@, task.id)]

GreedyRunStart(t0) ==
    [scheduled_tasks |-> <<>>, unscheduled_tasks |-> <<>>,
     current_time |-> t0, raised |-> "none"]

\* as GreedyStatus, but Partial whenever a task is unscheduled
GreedyStatus_NeverFailed(run) ==
    IF run.unscheduled_tasks = <<>> THEN SUCCESS ELSE PARTIAL

GreedyStatus(run) ==
    IF run.unscheduled_tasks = <<>> THEN SUCCESS
    ELSE IF run.scheduled_tasks # <<>> THEN PARTIAL
    ELSE FAILED

GreedyMessage(run, ts) ==
    IF run.unscheduled_tasks = <<>>
    THEN <<"Successfully scheduled all", Len(run.scheduled_tasks)>>
    ELSE IF run.scheduled_tasks # <<>>
         THEN <<"Scheduled", Len(run.scheduled_tasks), "of", Len(ts)>>
         ELSE <<"Failed to schedule any tasks">>

\* as ValidationFailure, with the first message only
ValidationFailure_FirstMessage(errors) ==
    create_schedule_result(FAILED, <<>>, <<>>, <<"Validation errors", <<errors[1]>> >>)

ValidationFailure(errors) ==
    create_schedule_result(FAILED, <<>>, <<>>, <<"Validation errors", errors>>)

\* ------------------------------------------------------------ exact scheduler
\* int(timedelta.total_seconds() / 60): whole minutes, truncated toward zero
ToMinutes(d) ==
    IF d >= 0 THEN d \div TicksPerMinute ELSE -((-d) \div TicksPerMinute)

MinHorizon == 100

RECURSIVE LatestEnd(_)
LatestEnd(ts) ==
    IF Len(ts) = 1 THEN ts[1].end_time
    ELSE Max(LatestEnd(Front(ts)), Last(ts).end_time)

calculate_time_horizon(ts, t0) ==
    IF ts = <<>> THEN MinHorizon
    ELSE Max(ToMinutes(LatestEnd(ts) - t0), MinHorizon)

DurationMinutes(task) == ToMinutes(task.preferred_duration)
StartMin(task, t0) == ToMinutes(task.start_time - t0)
StartMax(task, t0) == ToMinutes(task.end_time - task.preferred_duration - t0)

\* next((j for j, t in enumerate(tasks) if t.id == target), None); 0 for None
TargetIndex(ts, id) ==
    LET hits == {j \in 1..Len(ts) : ts[j].id = id}
    IN IF hits = {} THEN 0 ELSE CHOOSE j \in hits : \A k \in hits : j <= k

\* y[i] >= start_min and y[i] <= start_max, each only when not negative; with
\* the bounds of y[i] and z[i] and z[i] - y[i] = duration
StartRange(task, H, t0) ==
    {v \in 0..(H - 1) :
        /\ v + DurationMinutes(task) >= 0
        /\ v + DurationMinutes(task) <= H
        /\ StartMin(task, t0) >= 0 => v >= StartMin(task, t0)
        /\ StartMax(task, t0) >= 0 => v <= StartMax(task, t0)}

\* y[i] >= z[target_index] for every StartAfterEnd constraint whose target is
\* among the tasks
DependencyConstraints(ts, y) ==
    \A i \in 1..Len(y) :
        \A c \in 1..Len(ts[i].task_constraints) :
            LET con == ts[i].task_constraints[c]
                target_index == TargetIndex(ts, con.target_task_id)
            IN (con.constraint_type = START_AFTER_END
                    /\ target_index # 0 /\ target_index <= Len(y))
                => y[i] >= y[target_index] + DurationMinutes(ts[target_index])

\* the values of y[1..k] that satisfy the duration, time window and
\* dependency constraints among the first k tasks
RECURSIVE YAssignments(_, _, _, _)
YAssignments(ts, H, t0, k) ==
    IF k = 0 THEN {<<>>}
    ELSE {y \in UNION {{Append(p, v) : v \in StartRange(ts[k], H, t0)} :
                           p \in YAssignments(ts, H, t0, k - 1)} :
             DependencyConstraints(ts, y)}

\* makespan in 0..H with z[i] - makespan >= 0 for every task
MakespanValues(ts, H, y) ==
    {m \in 0..H : \A i \in 1..Len(y) : y[i] + DurationMinutes(ts[i]) - m >= 0}

\* x[i, start_t] has coefficient 1 in minute t's constraint
ActiveAt(xi, d, H, t) == xi \in Max(0, t - d + 1)..(Min(H, t + 1) - 1)

\* minute t's constraint: at most one of the x in it is 1
SingleActorAt(xs, ts, H, t) ==
    Cardinality({i \in 1..Len(xs) : ActiveAt(xs[i], DurationMinutes(ts[i]), H, t)}) <= 1

MutualExclusion(xs, ts, H) == \A t \in 0..(H - 1) : SingleActorAt(xs, ts, H, t)

\* the start minutes (x[i, t] = 1 for exactly one t) of the first k tasks that
\* satisfy MutualExclusion. Two tasks that share a minute share the minute at
\* which the later of them starts, so a new task needs only the constraints
\* of the minutes at which a task starts
RECURSIVE XAssignments(_, _, _)
XAssignments(ts, H, k) ==
    IF k = 0 THEN {<<>>}
    ELSE UNION {{Append(p, u) :
                    u \in {v \in 0..(H - 1) :
                             \A t \in {v} \cup {p[i] : i \in 1..Len(p)} :
                                 SingleActorAt(Append(p, v), ts, H, t)}} :
                p \in XAssignments(ts, H, k - 1)}

OPTIMAL == "OPTIMAL"
FEASIBLE == "FEASIBLE"
INFEASIBLE == "INFEASIBLE"
NOT_SOLVED == "NOT_SOLVED"

\* as extract_solution, but a task that starts at minute 0 is left out
extract_solution_SkipsMinuteZero(xs, ts, clock) ==
    LET entry(i) ==
            LET start_datetime == clock[i] + Minutes(xs[i])
                end_datetime == start_datetime + ts[i].preferred_duration
            IN [raises |-> ScheduledTaskRaises(start_datetime, end_datetime,
                                               ts[i].preferred_duration),
                scheduled_task |-> EnduranceScheduledTask(ts[i], start_datetime,
                                      end_datetime, ts[i].preferred_duration)]
        kept == SelectSeq([i \in 1..Len(ts) |-> i], LAMBDA i : xs[i] # 0)
    IN [raised |-> \E i \in 1..Len(ts) : entry(i).raises,
        schedule |-> [k \in 1..Len(kept) |-> entry(kept[k]).scheduled_task]]

\* _extract_solution: [raised, schedule], the tasks in input order, each at
\* the minute t with x[i, t] = 1, counted from the datetime.now() read in
\* that task's iteration of the loop
extract_solution(xs, ts, clock) ==
    LET entry(i) ==
            LET start_datetime == clock[i] + Minutes(xs[i])
                end_datetime == start_datetime + ts[i].preferred_duration
            IN [raises |-> ScheduledTaskRaises(start_datetime, end_datetime,
                                               ts[i].preferred_duration),
                scheduled_task |-> EnduranceScheduledTask(ts[i], start_datetime,
                                      end_datetime, ts[i].preferred_duration)]
    IN [raised |-> \E i \in 1..Len(ts) : entry(i).raises,
        schedule |-> [i \in 1..Len(ts) |-> entry(i).scheduled_task]]

SolverUnavailable ==
    create_schedule_result(FAILED, <<>>, <<>>, <<"Could not create OR-Tools solver">>)

\* as SolverFailed, reported as a timeout
SolverFailed_Timeout(status) ==
    create_schedule_result(TIMEOUT, <<>>, <<>>, <<"Solver failed with status", status>>)

SolverFailed(status) ==
    create_schedule_result(FAILED, <<>>, <<>>, <<"Solver failed with status", status>>)

MILPError(e) ==
    create_schedule_result(FAILED, <<>>, <<>>, <<"Error in MILP scheduling", e>>)

MILPSuccess(schedule) ==
    create_schedule_result(SUCCESS, schedule, <<>>,
                           <<"Schedule created with", Len(schedule), "tasks">>)

\* the readings of datetime.now() in the n iterations of the extraction loop:
\* none before t0, none before the one of the iteration before it
RECURSIVE Clocks(_, _)
Clocks(t0, n) ==
    IF n = 0 THEN {<<>>}
    ELSE UNION {{Append(c, t) :
                    t \in (IF c = <<>> THEN t0 ELSE Last(c))..(t0 + MaxSolveTime)} :
                c \in Clocks(t0, n - 1)}

\* what Solve() reports: a solution it proved optimal, or one it holds when
\* the time limit ends the search
SolutionStatuses == {OPTIMAL, FEASIBLE}

NO_SOLVER == "no_solver"

\* the pairs <<solver status, result>> of schedule() once validation has
\* passed: the solver may be missing, may stop at the time limit without a
\* solution, reports the model infeasible when it is, and otherwise returns
\* any assignment that satisfies the constraints
MILPOutcomes(ts, t0) ==
    LET H == calculate_time_horizon(ts, t0)
        X == XAssignments(ts, H, Len(ts))
        feasible ==
            /\ X # {}
            /\ \E y \in YAssignments(ts, H, t0, Len(ts)) : MakespanValues(ts, H, y) # {}
    IN {<<NO_SOLVER, SolverUnavailable>>, <<NOT_SOLVED, SolverFailed(NOT_SOLVED)>>}
       \cup (IF ~feasible THEN {<<INFEASIBLE, SolverFailed(INFEASIBLE)>>}
             ELSE {LET sol == extract_solution(xs, ts, clock)
                   IN <<status, IF sol.raised THEN MILPError("ValueError")
                                ELSE MILPSuccess(sol.schedule)>> :
                      xs \in X, clock \in Clocks(t0, Len(ts)),
                      status \in SolutionStatuses})

\* ------------------------------------------------------------ state
VARIABLES
    tasks,             \* the task list passed to schedule()
    resources,         \* the resource list passed to schedule()
    resource_manager,  \* [set, resources, resource_usage]: the resource manager
    task_manager,      \* [tasks, order, task_dependencies]: the task manager
    now,               \* datetime.now() at the call
    alg,               \* the scheduler running: "none", "greedy", "milp"
    pc,                \* position in schedule(): idle, placing, done, raised
    sorted_tasks,      \* the priority-sorted tasks
    idx,               \* number of sorted tasks attempted so far
    run,               \* scheduled_tasks, unscheduled_tasks, current_time, raised
    solver_status,     \* what the solver reported to the exact scheduler
    result,            \* the returned EnduranceScheduleResult, or None
    call               \* the last call on a task, resource or manager object

vars == <<tasks, resources, resource_manager, task_manager, now, alg, pc,
          sorted_tasks, idx, run, solver_status, result, call>>
inputs == <<tasks, resources, resource_manager, task_manager, now>>

\* schedule() has returned a result
Returned == pc = "done"

\* ------------------------------------------------------------ inputs
Times == 0..MaxTime

\* (min, preferred) duration pairs; max_duration is the preferred one
DurationPairs == {<<0, 0>>, <<0, 1>>, <<1, 1>>, <<1, 2>>}

FreeTask(id, st, en, d, prio, tcs, rcs) ==
    EnduranceTask(id, st, en, d[1], d[2], d[2], prio, tcs, rcs)

Gripper == IntegerResource("gripper", 1, 0)

\* EnduranceResourceManager() after add_resource of every resource of rs
ManagerOf(set, rs) ==
    [set |-> set,
     resources |-> [rid \in {rs[i].id : i \in 1..Len(rs)} |->
                      rs[CHOOSE i \in 1..Len(rs) : rs[i].id = rid]],
     resource_usage |-> [rid \in {rs[i].id : i \in 1..Len(rs)} |-> <<>>]]

\* _update_dependencies: the targets of the task's StartAfterEnd and
\* Contained constraints
Dependencies(task) ==
    {task.task_constraints[i].target_task_id :
        i \in {j \in 1..Len(task.task_constraints) :
                 task.task_constraints[j].constraint_type \in {START_AFTER_END, CONTAINED}}}

\* EnduranceTaskManager.add_task: the task is indexed by its id, a new id
\* last in the dict's order and a known id where it was; its entry of the
\* dependency map is replaced, and exists only for a non-empty set
add_task(tm, task) ==
    LET ids == (DOMAIN tm.task_dependencies) \ {task.id}
        kept == [id \in ids |-> tm.task_dependencies[id]]
    IN [tasks |-> [id \in (DOMAIN tm.tasks) \cup {task.id} |->
                      IF id = task.id THEN task ELSE tm.tasks[id]],
        order |-> IF task.id \in DOMAIN tm.tasks THEN tm.order
                  ELSE Append(tm.order, task.id),
        task_dependencies |->
            IF Dependencies(task) = {} THEN kept
            ELSE [id \in ids \cup {task.id} |->
                     IF id = task.id THEN Dependencies(task) ELSE kept[id]]]

EmptyTaskManager == [tasks |-> <<>>, order |-> <<>>, task_dependencies |-> <<>>]

\* EnduranceTaskManager() after add_task of every task of ts, in order
RECURSIVE TaskManagerOf(_)
TaskManagerOf(ts) ==
    IF ts = <<>> THEN EmptyTaskManager
    ELSE add_task(TaskManagerOf(Front(ts)), Last(ts))

\* two tasks with free windows and durations; B may depend on A or on a task
\* that is not in the input
InitTiming ==
    /\ \E sa \in Times, ea \in Times, da \in DurationPairs, pa \in 1..2,
          sb \in Times, eb \in Times, db \in DurationPairs, pb \in 1..2,
          tcb \in {<<>>, <<TaskConstraint(START_AFTER_END, "A")>>,
                   <<TaskConstraint(CONTAINED, "A")>>,
                   <<TaskConstraint(START_AFTER_END, "Z")>>} :
         LET a == FreeTask("A", sa, ea, da, pa, <<>>, <<>>)
             b == FreeTask("B", sb, eb, db, pb, tcb, <<>>)
         IN /\ TaskValid(a) /\ TaskValid(b)
            /\ tasks = <<a, b>>
    /\ resources = <<Gripper>>
    /\ resource_manager = ManagerOf(TRUE, resources)
    /\ now \in 0..MaxNow

\* resource constraints a task of the resource inputs may carry
ResourceConstraintLists ==
    {<<>>, <<ResourceConstraint("missing", 1, 1)>>,
     <<ResourceConstraint("battery", 1, 1)>>,
     <<ResourceConstraint("gripper", 1, 1), ResourceConstraint("gripper", 0, 1)>>}
    \cup {<<ResourceConstraint("gripper", mn, mx)>> :
             mn \in 0..MaxAmount, mx \in {MaxAmount, Inf}}

\* two tasks that fit one after the other, with free resource constraints, on
\* a gripper and a battery that other tasks may already hold in the manager
InitResources ==
    /\ \E ra \in ResourceConstraintLists, rb \in ResourceConstraintLists :
         tasks = <<EnduranceTask("A", 0, 4, 1, 2, 2, 1, <<>>, ra),
                   EnduranceTask("B", 0, 4, 1, 2, 2, 2, <<>>, rb)>>
    /\ \E cap \in 1..MaxCapacity, cur \in 0..MaxCapacity,
          mx \in {None, Some(MaxCapacity)}, bcur \in {0, 1} :
         /\ cur <= cap
         /\ resources = <<IntegerResource("gripper", cap, cur),
                          CumulativeRateResource("battery", 0, Some(0), mx, bcur)>>
    /\ \E set \in BOOLEAN : resource_manager = ManagerOf(set, resources)
    /\ now = 0

\* EnduranceTestCaseBuilder.create_resource_constrained_test at base_time 0
ResourceConstrainedTasks ==
    [i \in 1..3 |->
        EnduranceTask(<<"resource_task", i>>, Minutes((i - 1) * 10),
                      Minutes(60 + (i - 1) * 10),
                      Minutes(5), Minutes(15), Minutes(10), i, <<>>,
                      <<ResourceConstraint("gripper_001", 1, 1)>>)]

ResourceConstrainedResources == <<IntegerResource("gripper_001", 1, 0)>>

\* EnduranceTestCaseBuilder.create_dependency_test at base_time 0
DependencyTasks ==
    [i \in 1..4 |->
        EnduranceTask(<<"chain_task", i>>, Minutes((i - 1) * 20),
                      Minutes(120 + (i - 1) * 20),
                      Minutes(10), Minutes(30), Minutes(20), i,
                      IF i > 1
                      THEN <<TaskConstraint(START_AFTER_END, <<"chain_task", i - 1>>)>>
                      ELSE <<>>,
                      <<>>)]

DependencyResources == <<IntegerResource("gripper", 1, 0)>>

\* EnduranceTestRunner.run_test: the managers hold the test case's objects and
\* schedule() runs at or shortly after the base_time the tasks were built at
InitHarness ==
    /\ \/ tasks = ResourceConstrainedTasks /\ resources = ResourceConstrainedResources
       \/ tasks = DependencyTasks /\ resources = DependencyResources
    /\ resource_manager = ManagerOf(TRUE, resources)
    /\ now \in 0..MaxDrift

\* task and resource lists that validate_inputs may reject: empty lists, and
\* objects whose fields were changed after construction; among them a task
\* with a Contained constraint given with a rejected resource list
InitUnvalidated ==
    /\ \/ /\ \/ tasks = <<>>
             \/ \E st \in 0..2, en \in 0..2, mn \in 0..2, mx \in 0..2, pf \in 0..2 :
                  tasks = <<EnduranceTask("A", st, en, mn, mx, pf, 1, <<>>, <<>>)>>
          /\ resources \in
               {<<>>, <<Gripper>>, <<[Gripper EXCEPT !.max_capacity = None]>>,
                <<CumulativeRateResource("battery", 0, None, None, 0)>>,
                <<[CumulativeRateResource("battery", 0, None, None, 0)
                      EXCEPT !.initial_value = None]>>}
       \/ /\ tasks = <<EnduranceTask("C", 0, 2, 1, 2, 2, 1, <<>>, <<>>),
                       EnduranceTask("D", 0, 2, 1, 1, 1, 2,
                                     <<TaskConstraint(CONTAINED, "C")>>, <<>>)>>
          /\ resources \in {<<>>, <<[Gripper EXCEPT !.max_capacity = None]>>}
    /\ resource_manager = ManagerOf(TRUE, resources)
    /\ now \in 0..1

InitRest ==
    /\ task_manager = TaskManagerOf(tasks)
    /\ solver_status = "not_called"
    /\ call = None
    /\ alg = "none"
    /\ pc = "idle"
    /\ sorted_tasks = <<>>
    /\ idx = 0
    /\ run = GreedyRunStart(0)
    /\ result = None

InitGreedy ==
    /\ InitTiming \/ InitResources \/ InitHarness \/ InitUnvalidated
    /\ InitRest

\* the resource under test, and whether the last call on it was `op`
TheResource == resources[1]
Called(op) == call # None /\ call.op = op

\* ------------------------------------------------------------ resource manager
\* a dict without one key
Without(f, key) == [k \in (DOMAIN f) \ {key} |-> f[k]]
\* a dict with one key set
With(f, key, value) ==
    [k \in (DOMAIN f) \cup {key} |-> IF k = key THEN value ELSE f[k]]

\* resource_requirements is a dict: a sequence of <<resource id, amount>> in
\* insertion order, each id once
IsDict(req) == \A i, j \in 1..Len(req) : req[i][1] = req[j][1] => i = j
ReqDict(req) ==
    [rid \in {req[i][1] : i \in 1..Len(req)} |->
        req[CHOOSE i \in 1..Len(req) : req[i][1] = rid][2]]

can_allocate_resources(mgr, req) ==
    \A i \in 1..Len(req) :
        /\ req[i][1] \in DOMAIN mgr.resources
        /\ can_allocate(mgr.resources[req[i][1]], req[i][2])

deallocate_resources(mgr, task_id) ==
    LET held == {rid \in DOMAIN mgr.resource_usage :
                    /\ task_id \in DOMAIN mgr.resource_usage[rid]
                    /\ rid \in DOMAIN mgr.resources}
        out(rid) == deallocate(mgr.resources[rid], mgr.resource_usage[rid][task_id])
    IN [returned |-> \A rid \in held : out(rid).returned,
        manager |->
            [mgr EXCEPT
               !.resources = [rid \in DOMAIN mgr.resources |->
                                 IF rid \in held THEN out(rid).resource
                                 ELSE mgr.resources[rid]],
               !.resource_usage = [rid \in DOMAIN mgr.resource_usage |->
                                      IF rid \in held
                                      THEN Without(mgr.resource_usage[rid], task_id)
                                      ELSE mgr.resource_usage[rid]]]]

\* the loop of allocate_resources from requirement i on
RECURSIVE AllocateEach(_, _, _, _)
AllocateEach(mgr, task_id, req, i) ==
    IF i > Len(req) THEN [returned |-> TRUE, manager |-> mgr]
    ELSE LET rid == req[i][1]
             out == allocate(mgr.resources[rid], req[i][2])
         IN IF out.returned
            THEN AllocateEach(
                     [mgr EXCEPT !.resources[rid] = out.resource,
                                 !.resource_usage[rid] =
                                     With(mgr.resource_usage[rid], task_id, req[i][2])],
                     task_id, req, i + 1)
            ELSE [returned |-> FALSE,
                  manager |-> deallocate_resources(mgr, task_id).manager]

\* as allocate_resources, without the check before the loop
allocate_resources_Unchecked(mgr, task_id, req) ==
    IF \E i \in 1..Len(req) : req[i][1] \notin DOMAIN mgr.resources
    THEN [returned |-> FALSE, manager |-> mgr]
    ELSE AllocateEach(mgr, task_id, req, 1)

allocate_resources(mgr, task_id, req) ==
    IF ~can_allocate_resources(mgr, req)
    THEN [returned |-> FALSE, manager |-> mgr]
    ELSE AllocateEach(mgr, task_id, req, 1)

get_task_resource_usage(mgr, task_id) ==
    [rid \in {r \in DOMAIN mgr.resource_usage :
                 task_id \in DOMAIN mgr.resource_usage[r]} |->
        mgr.resource_usage[rid][task_id]]

\* ------------------------------------------------------------ greedy actions
\* schedule(): validation and sort
GreedySchedule ==
    /\ pc = "idle"
    /\ alg' = "greedy"
    /\ LET errors == validate_inputs(tasks, resources)
       IN IF errors # <<>>
          THEN /\ result' = ValidationFailure(errors)
               /\ pc' = "done"
               /\ UNCHANGED <<sorted_tasks, run>>
          ELSE /\ sorted_tasks' = SortedByPriority(tasks)
               /\ run' = GreedyRunStart(now)
               /\ pc' = "placing"
               /\ UNCHANGED result
    /\ UNCHANGED <<idx, inputs, solver_status, call>>

\* as GreedyTryTask, with the placed task's resources allocated in the manager
GreedyTryTask_Allocating ==
    /\ pc = "placing" /\ alg = "greedy"
    /\ idx < Len(sorted_tasks)
    /\ LET task == sorted_tasks[idx + 1]
           next == GreedyStep(resource_manager, run, task)
           rcs == task.resource_constraints
           req == [i \in 1..Len(rcs) |-> <<rcs[i].resource_id, rcs[i].min_amount>>]
       IN /\ run' = next
          /\ pc' = IF next.raised # "none" THEN "raised" ELSE "placing"
          /\ resource_manager' =
                 IF Len(next.scheduled_tasks) > Len(run.scheduled_tasks)
                 THEN allocate_resources(resource_manager, task.id, req).manager
                 ELSE resource_manager
    /\ idx' = idx + 1
    /\ UNCHANGED <<alg, sorted_tasks, result, tasks, resources, task_manager, now,
                   solver_status, call>>

\* one iteration of `for task in sorted_tasks`
GreedyTryTask ==
    /\ pc = "placing" /\ alg = "greedy"
    /\ idx < Len(sorted_tasks)
    /\ LET next == GreedyStep(resource_manager, run, sorted_tasks[idx + 1])
       IN /\ run' = next
          /\ pc' = IF next.raised # "none" THEN "raised" ELSE "placing"
    /\ idx' = idx + 1
    /\ UNCHANGED <<alg, sorted_tasks, result, inputs, solver_status, call>>

\* status, message and the returned result
GreedyFinish ==
    /\ pc = "placing" /\ alg = "greedy"
    /\ idx = Len(sorted_tasks)
    /\ result' = create_schedule_result(GreedyStatus(run), run.scheduled_tasks,
                                        run.unscheduled_tasks, GreedyMessage(run, tasks))
    /\ pc' = "done"
    /\ UNCHANGED <<alg, sorted_tasks, idx, run, inputs, solver_status, call>>

NextGreedy == GreedySchedule \/ GreedyTryTask \/ GreedyFinish

SpecGreedy == InitGreedy /\ [][NextGreedy]_vars


\* ------------------------------------------------------------ exact actions
\* EnduranceMILPScheduler.schedule()
MILPSchedule ==
    /\ pc = "idle"
    /\ alg' = "milp"
    /\ LET errors == validate_inputs(tasks, resources)
       IN IF errors # <<>>
          THEN /\ result' = ValidationFailure(errors)
               /\ UNCHANGED solver_status
          ELSE IF tasks = <<>> \/ resources = <<>>
               THEN /\ result' = create_schedule_result(FAILED, <<>>, <<>>,
                                      <<"No tasks or resources provided">>)
                    /\ UNCHANGED solver_status
               ELSE \E outcome \in MILPOutcomes(tasks, now) :
                        /\ solver_status' = outcome[1]
                        /\ result' = outcome[2]
    /\ pc' = "done"
    /\ UNCHANGED <<sorted_tasks, idx, run, inputs, call>>

\* two tasks of long preferred durations; each may have to start after the
\* other, or after a task that is not in the input
InitExact ==
    /\ \E sb \in {0, 65},
          tca \in {<<>>, <<TaskConstraint(START_AFTER_END, "B")>>},
          tcb \in {<<>>, <<TaskConstraint(START_AFTER_END, "A")>>,
                   <<TaskConstraint(START_AFTER_END, "Z")>>} :
         tasks = <<EnduranceTask("A", 0, Minutes(70), Minutes(60), Minutes(61),
                                 Minutes(60) + 1, 1, tca, <<>>),
                   EnduranceTask("B", Minutes(sb), Minutes(sb + 40), Minutes(30),
                                 Minutes(30), Minutes(30), 2, tcb, <<>>)>>
    /\ resources = <<Gripper>>
    /\ resource_manager = ManagerOf(TRUE, resources)
    /\ now \in 0..1

\* three tasks without constraints, window k after window k - 1 with one tick
\* between them and as wide as the preferred duration: priorities along the
\* windows with the tasks given in reverse window order, and priorities
\* against the windows
ParityTask(k, priority) ==
    LET start == (k - 1) * (Minutes(34) + 1)
    IN EnduranceTask(<<"parity_task", k>>, start, start + Minutes(34),
                     Minutes(34), Minutes(34), Minutes(34), priority, <<>>, <<>>)

InitParity ==
    /\ \E input \in {<<<<1, 2, 3>>, TRUE>>, <<<<3, 2, 1>>, FALSE>>} :
         tasks = [i \in 1..3 |->
                    LET k == IF input[2] THEN 4 - i ELSE i
                    IN ParityTask(k, input[1][k])]
    /\ resources = <<Gripper>>
    /\ resource_manager = ManagerOf(TRUE, resources)
    /\ now = 0

InitMILP == InitExact /\ InitRest

NextMILP == MILPSchedule

SpecMILP == InitMILP /\ [][NextMILP]_vars

NextBoth == NextGreedy \/ MILPSchedule

InitValidation == InitUnvalidated /\ InitRest

SpecValidation == InitValidation /\ [][NextBoth]_vars

InitBoth == InitParity /\ InitRest

SpecParity == InitBoth /\ [][NextBoth]_vars

\* two tasks that may each need the gripper, registered with the managers
InitFrameInputs ==
    /\ \E ra, rb \in {<<>>, <<ResourceConstraint("gripper", 1, MaxAmount)>>} :
          tasks = <<EnduranceTask("A", 0, 4, 1, 2, 2, 1, <<>>, ra),
                    EnduranceTask("B", 0, 4, 1, 2, 2, 2,
                                  <<TaskConstraint(START_AFTER_END, "A")>>, rb)>>
    /\ \E cap \in {1, MaxCapacity} : resources = <<IntegerResource("gripper", cap, 0)>>
    /\ \E set \in BOOLEAN : resource_manager = ManagerOf(set, resources)
    /\ now = 0

\* both schedulers on tasks with resource constraints and managers in use
InitFrame == InitFrameInputs /\ InitRest

SpecFrame == InitFrame /\ [][NextBoth]_vars

\* ------------------------------------------------------------ one resource
Amounts == (0 - MaxAmount)..MaxAmount
Rates == (0 - MaxRate)..MaxRate
Explored(r) == (0 - MaxValue) <= r.current_value /\ r.current_value <= MaxValue

\* the constructor arguments of a resource
ResourceFields(type, cap, init, mn, mx, status) ==
    [id |-> "r", resource_type |-> type, max_capacity |-> cap,
     initial_value |-> init, min_value |-> mn, max_value |-> mx,
     current_value |-> 0, rate |-> 0, status |-> status]

\* the resources that construction accepts
ConstructedResources ==
    {NewResource(f).resource :
        f \in {g \in {ResourceFields(INTEGER, Some(cap), None, None, None, st) :
                         cap \in 1..MaxCapacity, st \in {AVAILABLE, OFFLINE}}
                     \cup {ResourceFields(CUMULATIVE_RATE, None, Some(init), mn, mx, AVAILABLE) :
                              init \in 0..(MaxCapacity + 1),
                              mn \in {None, Some(0), Some(1)},
                              mx \in {None, Some(MaxCapacity)}} :
                 NewResource(g).raised = "none"}}

InitResource ==
    /\ tasks = <<>>
    /\ \E r \in ConstructedResources : resources = <<r>>
    /\ resource_manager = ManagerOf(FALSE, <<>>)
    /\ now = 0
    /\ InitRest

ObjectFrame ==
    UNCHANGED <<now, alg, pc, sorted_tasks, idx, run, solver_status, result>>

ResourceAllocate ==
    /\ \E amount \in Amounts :
          LET out == allocate(resources[1], amount)
          IN /\ Explored(out.resource)
             /\ resources' = <<out.resource>>
             /\ call' = [op |-> "allocate", amount |-> amount,
                         returned |-> out.returned, before |-> resources[1]]
    /\ UNCHANGED <<tasks, resource_manager, task_manager>>
    /\ ObjectFrame

ResourceDeallocate ==
    /\ \E amount \in Amounts :
          LET out == deallocate(resources[1], amount)
          IN /\ Explored(out.resource)
             /\ resources' = <<out.resource>>
             /\ call' = [op |-> "deallocate", amount |-> amount,
                         returned |-> out.returned, before |-> resources[1]]
    /\ UNCHANGED <<tasks, resource_manager, task_manager>>
    /\ ObjectFrame

ResourceSetRate ==
    /\ \E rate \in Rates :
          /\ resources' = <<set_rate(resources[1], rate)>>
          /\ call' = [op |-> "set_rate", amount |-> rate,
                      returned |-> TRUE, before |-> resources[1]]
    /\ UNCHANGED <<tasks, resource_manager, task_manager>>
    /\ ObjectFrame

ResourceUpdateValue ==
    /\ \E delta_time \in 0..MaxAmount :
          LET r == update_value(resources[1], delta_time)
          IN /\ Explored(r)
             /\ resources' = <<r>>
             /\ call' = [op |-> "update_value", amount |-> delta_time,
                         returned |-> TRUE, before |-> resources[1]]
    /\ UNCHANGED <<tasks, resource_manager, task_manager>>
    /\ ObjectFrame

\* from_dict(to_dict(r)): the rebuilt resource is what the call returned
ResourceRoundTrip ==
    /\ call' = [op |-> "round_trip", amount |-> 0,
                returned |-> Resource_from_dict(Resource_to_dict(resources[1])),
                before |-> resources[1]]
    /\ UNCHANGED <<tasks, resources, resource_manager, task_manager>>
    /\ ObjectFrame

NextResource ==
    \/ ResourceAllocate
    \/ ResourceDeallocate
    \/ ResourceSetRate
    \/ ResourceUpdateValue
    \/ ResourceRoundTrip

SpecResource == InitResource /\ [][NextResource]_vars


\* EnduranceTaskManager.remove_task: the returned flag and the manager after
remove_task(tm, task_id) ==
    IF task_id \notin DOMAIN tm.tasks THEN [returned |-> FALSE, manager |-> tm]
    ELSE [returned |-> TRUE,
          manager |->
              [tasks |-> Without(tm.tasks, task_id),
               order |-> SelectSeq(tm.order, LAMBDA id : id # task_id),
               task_dependencies |->
                   [id \in (DOMAIN tm.task_dependencies) \ {task_id} |->
                       tm.task_dependencies[id] \ {task_id}]]]

get_dependencies(tm, task_id) ==
    IF task_id \in DOMAIN tm.task_dependencies THEN tm.task_dependencies[task_id]
    ELSE {}

can_schedule_task(tm, task_id, scheduled_tasks) ==
    IF task_id \notin DOMAIN tm.tasks THEN FALSE
    ELSE get_dependencies(tm, task_id) \subseteq scheduled_tasks

\* EnduranceTask.add_task_constraint
add_task_constraint(task, constraint_type, target_task_id) ==
    [task EXCEPT !.task_constraints =
                     Append(@, TaskConstraint(constraint_type, target_task_id))]

\* ------------------------------------------------------------ the task graph
GraphIds == {"A", "B", "C"}

\* tasks A and B in the caller's hands and registered with the manager
InitGraph ==
    /\ \E tb \in {<<>>, <<TaskConstraint(START_AFTER_END, "A")>>} :
          tasks = <<EnduranceTask("A", 0, 4, 1, 2, 2, 1, <<>>, <<>>),
                    EnduranceTask("B", 0, 4, 1, 2, 2, 2, tb, <<>>)>>
    /\ resources = <<>>
    /\ resource_manager = ManagerOf(FALSE, <<>>)
    /\ now = 0
    /\ InitRest

GraphAddTask ==
    /\ \E i \in 1..Len(tasks) :
          /\ task_manager' = add_task(task_manager, tasks[i])
          /\ call' = [op |-> "add_task", task_id |-> tasks[i].id, returned |-> TRUE]
    /\ UNCHANGED <<tasks, resources, resource_manager>>
    /\ ObjectFrame

GraphRemoveTask ==
    /\ \E task_id \in GraphIds :
          LET out == remove_task(task_manager, task_id)
          IN /\ task_manager' = out.manager
             /\ call' = [op |-> "remove_task", task_id |-> task_id,
                         returned |-> out.returned]
    /\ UNCHANGED <<tasks, resources, resource_manager>>
    /\ ObjectFrame

\* add_task_constraint on a task object; a manager that holds the task holds
\* this same object, and its dependency map is not touched
GraphAddConstraint ==
    /\ \E i \in 1..Len(tasks), type \in {START_AFTER_END, CONTAINED},
          target \in GraphIds :
          LET task == add_task_constraint(tasks[i], type, target)
          IN /\ target # tasks[i].id
             /\ Len(tasks[i].task_constraints) < MaxConstraints
             /\ tasks' = [tasks EXCEPT ![i] = task]
             /\ task_manager' =
                    IF task.id \in DOMAIN task_manager.tasks
                    THEN [task_manager EXCEPT !.tasks[task.id] = task]
                    ELSE task_manager
             /\ call' = [op |-> "add_task_constraint", task_id |-> task.id,
                         returned |-> TRUE]
    /\ UNCHANGED <<resources, resource_manager>>
    /\ ObjectFrame

NextGraph == GraphAddTask \/ GraphRemoveTask \/ GraphAddConstraint

SpecGraph == InitGraph /\ [][NextGraph]_vars

\* ------------------------------------------------------------ dictionaries
SecondsPerTick == 60 \div TicksPerMinute

\* datetime.isoformat and datetime.fromisoformat, to the second
isoformat(t) ==
    [minute |-> t \div TicksPerMinute, second |-> (t % TicksPerMinute) * SecondsPerTick]
fromisoformat(text) == text.minute * TicksPerMinute + text.second \div SecondsPerTick

\* timedelta.total_seconds and timedelta(seconds=...)
total_seconds(d) == d * SecondsPerTick
timedelta(seconds) == seconds \div SecondsPerTick

ResourceImpact(rid, type, value) ==
    [resource_id |-> rid, impact_type |-> type, impact_value |-> value,
     metadata |-> <<>>]

\* EnduranceTask.to_dict
Task_to_dict(t) ==
    [id |-> t.id,
     start_time |-> isoformat(t.start_time), end_time |-> isoformat(t.end_time),
     min_duration |-> total_seconds(t.min_duration),
     max_duration |-> total_seconds(t.max_duration),
     preferred_duration |-> total_seconds(t.preferred_duration),
     task_constraints |-> t.task_constraints,
     resource_constraints |-> t.resource_constraints,
     resource_impacts |-> t.resource_impacts,
     priority |-> t.priority, status |-> t.status]

\* a method called as f(positional..., **metadata) raises TypeError when a key
\* of metadata names one of its positional parameters
KeywordClash(metadata, parameters) == (DOMAIN metadata) \cap parameters # {}

\* the three loops of from_dict: the lists rebuilt through add_task_constraint,
\* add_resource_constraint and add_resource_impact, or the TypeError
RebuildRaises(data) ==
    \/ \E i \in 1..Len(data.task_constraints) :
          KeywordClash(data.task_constraints[i].metadata,
                       {"self", "constraint_type", "target_task_id"})
    \/ \E i \in 1..Len(data.resource_constraints) :
          KeywordClash(data.resource_constraints[i].metadata,
                       {"self", "resource_id", "min_amount", "max_amount"})
    \/ \E i \in 1..Len(data.resource_impacts) :
          KeywordClash(data.resource_impacts[i].metadata,
                       {"self", "resource_id", "impact_type", "impact_value"})

\* EnduranceTask.from_dict: the constructor with empty lists, then the loops
Task_from_dict(data) ==
    LET task == [id |-> data.id,
                 start_time |-> fromisoformat(data.start_time),
                 end_time |-> fromisoformat(data.end_time),
                 min_duration |-> timedelta(data.min_duration),
                 max_duration |-> timedelta(data.max_duration),
                 preferred_duration |-> timedelta(data.preferred_duration),
                 priority |-> data.priority,
                 task_constraints |-> <<>>, resource_constraints |-> <<>>,
                 resource_impacts |-> <<>>, status |-> data.status]
    IN IF ~TaskValid(task) THEN [raised |-> "ValueError"]
       ELSE IF RebuildRaises(data) THEN [raised |-> "TypeError"]
       ELSE [raised |-> "none",
             task |-> [task EXCEPT
                         !.task_constraints =
                             [i \in 1..Len(data.task_constraints) |->
                                 [TaskConstraint(data.task_constraints[i].constraint_type,
                                                 data.task_constraints[i].target_task_id)
                                    EXCEPT !.metadata = data.task_constraints[i].metadata]],
                         !.resource_constraints =
                             [i \in 1..Len(data.resource_constraints) |->
                                 [ResourceConstraint(data.resource_constraints[i].resource_id,
                                                     data.resource_constraints[i].min_amount,
                                                     data.resource_constraints[i].max_amount)
                                    EXCEPT !.metadata = data.resource_constraints[i].metadata]],
                         !.resource_impacts =
                             [i \in 1..Len(data.resource_impacts) |->
                                 [ResourceImpact(data.resource_impacts[i].resource_id,
                                                 data.resource_impacts[i].impact_type,
                                                 data.resource_impacts[i].impact_value)
                                    EXCEPT !.metadata = data.resource_impacts[i].metadata]]]]

\* EnduranceScheduledTask.to_dict and from_dict
ScheduledTask_to_dict(st) ==
    [task_id |-> st.task_id,
     start_time |-> isoformat(st.start_time), end_time |-> isoformat(st.end_time),
     duration |-> total_seconds(st.duration),
     resource_allocations |-> st.resource_allocations, priority |-> st.priority]

ScheduledTask_from_dict(data) ==
    LET start_time == fromisoformat(data.start_time)
        end_time == fromisoformat(data.end_time)
        duration == timedelta(data.duration)
    IN IF ScheduledTaskRaises(start_time, end_time, duration)
       THEN [raised |-> "ValueError"]
       ELSE [raised |-> "none",
             scheduled_task |->
                 [task_id |-> data.task_id, start_time |-> start_time,
                  end_time |-> end_time, duration |-> duration,
                  priority |-> data.priority,
                  resource_allocations |-> data.resource_allocations]]

\* EnduranceScheduleResult.to_dict, with the statistics it adds
Result_to_dict(res) ==
    [status |-> res.status,
     schedule |-> [i \in 1..Len(res.schedule) |-> ScheduledTask_to_dict(res.schedule[i])],
     unscheduled_tasks |-> res.unscheduled_tasks,
     message |-> res.message,
     statistics |-> [total_scheduled_tasks |-> total_scheduled_tasks(res),
                     total_unscheduled_tasks |-> total_unscheduled_tasks(res)]]

\* EnduranceScheduleResult.from_dict: the statistics are not read
Result_from_dict(data) ==
    IF \E i \in 1..Len(data.schedule) :
          ScheduledTask_from_dict(data.schedule[i]).raised # "none"
    THEN [raised |-> "ValueError"]
    ELSE [raised |-> "none",
          result |-> create_schedule_result(
                         data.status,
                         [i \in 1..Len(data.schedule) |->
                             ScheduledTask_from_dict(data.schedule[i]).scheduled_task],
                         data.unscheduled_tasks, data.message)]

\* metadata a constraint may carry
Metadatas == {<<>>, [note |-> "x"], [target_task_id |-> "A"]}

\* task A, and task B after A with metadata on the constraint, a resource
\* constraint and possibly an impact, both valid
InitSerialInputs ==
    /\ \E sa \in Times, da \in {1, 2}, md \in Metadatas,
          rc \in {<<>>, <<ResourceConstraint("gripper", 1, MaxAmount)>>,
                  <<ResourceConstraint("gripper", 1, Inf)>>},
          ri \in {<<>>, <<ResourceImpact("battery", "consume", 1)>>},
          status \in {PENDING, SCHEDULED} :
          LET a == [EnduranceTask("A", sa, sa + da, 1, da, da, 1, <<>>, rc)
                      EXCEPT !.status = status]
              b == [EnduranceTask("B", 0, MaxTime + 4, 1, 2, 2, 2,
                                  <<[TaskConstraint(START_AFTER_END, "A")
                                       EXCEPT !.metadata = md]>>, <<>>)
                      EXCEPT !.resource_impacts = ri]
          IN /\ TaskValid(a) /\ TaskValid(b)
             /\ tasks = <<a, b>>
    /\ resources = <<Gripper>>
    /\ resource_manager = ManagerOf(TRUE, resources)
    /\ now \in 0..1

InitSerial == InitSerialInputs /\ InitRest

TaskRoundTrip ==
    /\ \E i \in 1..Len(tasks) :
          call' = [op |-> "task_round_trip",
                   returned |-> Task_from_dict(Task_to_dict(tasks[i])),
                   before |-> tasks[i]]
    /\ UNCHANGED <<inputs, sorted_tasks, idx, run>>
    /\ UNCHANGED <<alg, pc, solver_status, result>>

ScheduledTaskRoundTrip ==
    /\ Returned
    /\ \E i \in 1..Len(result.schedule) :
          call' = [op |-> "scheduled_task_round_trip",
                   returned |-> ScheduledTask_from_dict(
                                    ScheduledTask_to_dict(result.schedule[i])),
                   before |-> result.schedule[i]]
    /\ UNCHANGED <<inputs, sorted_tasks, idx, run>>
    /\ UNCHANGED <<alg, pc, solver_status, result>>

ResultRoundTrip ==
    /\ Returned
    /\ call' = [op |-> "result_round_trip",
                returned |-> Result_from_dict(Result_to_dict(result)),
                before |-> result]
    /\ UNCHANGED <<inputs, sorted_tasks, idx, run>>
    /\ UNCHANGED <<alg, pc, solver_status, result>>

NextSerial ==
    \/ GreedySchedule
    \/ GreedyTryTask
    \/ GreedyFinish
    \/ TaskRoundTrip
    \/ ScheduledTaskRoundTrip
    \/ ResultRoundTrip

SpecSerial == InitSerial /\ [][NextSerial]_vars

\* ------------------------------------------------------------ the ledger
LedgerTaskIds == {"t", "u"}
\* the resources named by a call: registered ones, and one that is not
LedgerKeys == {<<"h">>, <<"g">>, <<"h", "g">>, <<"g", "missing">>}
LedgerAmounts == {0 - 1, 1}
Requirements ==
    {req \in UNION {[1..n -> {"h", "g", "missing"} \X LedgerAmounts] : n \in 1..2} :
        [i \in 1..Len(req) |-> req[i][1]] \in LedgerKeys}
LedgerExplored(mgr) ==
    \A rid \in DOMAIN mgr.resources :
        /\ 0 - 1 <= mgr.resources[rid].current_value
        /\ mgr.resources[rid].current_value <= MaxCapacity

\* the resources of the list as the manager holds them: the same objects
ResourceList(mgr, rs) == [i \in DOMAIN rs |-> mgr.resources[rs[i].id]]

InitLedger ==
    /\ tasks = <<>>
    /\ \E cap \in 1..MaxCapacity, g \in {INTEGER, CUMULATIVE_RATE} :
          resources =
              <<[NewResource(ResourceFields(INTEGER, Some(cap), None, None, None,
                                            AVAILABLE)).resource EXCEPT !.id = "h"],
                [NewResource(IF g = INTEGER
                             THEN ResourceFields(INTEGER, Some(1), None, None, None,
                                                 AVAILABLE)
                             ELSE ResourceFields(CUMULATIVE_RATE, None, Some(0), Some(0),
                                                 Some(MaxCapacity), AVAILABLE)).resource
                    EXCEPT !.id = "g"]>>
    /\ resource_manager = ManagerOf(TRUE, resources)
    /\ now = 0
    /\ InitRest

LedgerAllocate ==
    /\ \E task_id \in LedgerTaskIds, req \in Requirements :
          LET out == allocate_resources(resource_manager, task_id, req)
          IN /\ LedgerExplored(out.manager)
             /\ resource_manager' = out.manager
             /\ call' = [op |-> "allocate_resources", task_id |-> task_id,
                         req |-> req, returned |-> out.returned,
                         before |-> resource_manager]
    /\ resources' = ResourceList(resource_manager', resources)
    /\ UNCHANGED <<tasks, task_manager>>
    /\ ObjectFrame

\* deallocate_resources; the call record keeps the accepted allocation of the
\* same task that it follows, if any
LedgerDeallocate ==
    /\ \E task_id \in LedgerTaskIds :
          LET out == deallocate_resources(resource_manager, task_id)
          IN /\ LedgerExplored(out.manager)
             /\ resource_manager' = out.manager
             /\ call' = [op |-> "deallocate_resources", task_id |-> task_id,
                         returned |-> out.returned, before |-> resource_manager,
                         after |-> IF /\ Called("allocate_resources")
                                      /\ call.returned
                                      /\ call.task_id = task_id
                                   THEN call ELSE None]
    /\ resources' = ResourceList(resource_manager', resources)
    /\ UNCHANGED <<tasks, task_manager>>
    /\ ObjectFrame

NextLedger == LedgerAllocate \/ LedgerDeallocate

SpecLedger == InitLedger /\ [][NextLedger]_vars


\* ------------------------------------------------------------ task construction
\* as _validate_time_constraints, without the comparison of max_duration
\* with the window
validate_time_constraints_WindowOnly(t) ==
    IF t.start_time >= t.end_time THEN "start_time must be before end_time"
    ELSE "none"

\* EnduranceTask._validate_time_constraints: the error raised, or "none"
validate_time_constraints(t) ==
    IF t.start_time >= t.end_time THEN "start_time must be before end_time"
    ELSE IF t.max_duration > t.end_time - t.start_time
         THEN "max_duration cannot exceed available time window"
         ELSE "none"

\* EnduranceTask._validate_duration_constraints: the error raised, or "none"
validate_duration_constraints(t) ==
    IF t.min_duration > t.max_duration THEN "min_duration cannot exceed max_duration"
    ELSE IF ~(t.min_duration <= t.preferred_duration
              /\ t.preferred_duration <= t.max_duration)
         THEN "preferred_duration must be within min/max range"
         ELSE "none"

\* EnduranceTask(...): __post_init__ runs the two validations in order and
\* leaves the fields as given
NewTask(fields) ==
    IF validate_time_constraints(fields) # "none"
    THEN [raised |-> validate_time_constraints(fields)]
    ELSE IF validate_duration_constraints(fields) # "none"
         THEN [raised |-> validate_duration_constraints(fields)]
         ELSE [raised |-> "none", task |-> fields]

\* durations passed to the constructor, a negative one among them
Durations == (0 - 1)..MaxTime

InitTask ==
    /\ tasks = <<>>
    /\ resources = <<>>
    /\ resource_manager = ManagerOf(FALSE, <<>>)
    /\ now = 0
    /\ InitRest

\* one constructor call; the caller keeps the task when one is returned
TaskConstruct ==
    /\ call = None
    /\ \E st \in Times, en \in Times, mn \in Durations, mx \in Durations,
          pf \in Durations, prio \in 1..2 :
          LET fields == EnduranceTask("A", st, en, mn, mx, pf, prio, <<>>, <<>>)
              out == NewTask(fields)
          IN /\ call' = [op |-> "EnduranceTask", args |-> fields, returned |-> out]
             /\ tasks' = IF out.raised = "none" THEN <<out.task>> ELSE tasks
    /\ UNCHANGED <<resources, resource_manager, task_manager>>
    /\ ObjectFrame

NextTask == TaskConstruct

SpecTask == InitTask /\ [][NextTask]_vars

\* ------------------------------------------------------------ priority order
\* the tasks in the order of the manager's dict
get_tasks_by_priority_DictOrder(tm) ==
    [i \in 1..Len(tm.order) |-> tm.tasks[tm.order[i]]]

\* EnduranceTaskManager.get_tasks_by_priority: sorted() over the dict's values
get_tasks_by_priority(tm) ==
    SortedByPriority([i \in 1..Len(tm.order) |-> tm.tasks[tm.order[i]]])

\* three tasks of free priorities, registered in the order A, B, C
InitOrder ==
    /\ \E pa \in 1..2, pb \in 1..2, pc3 \in 1..2 :
          tasks = <<EnduranceTask("A", 0, 4, 1, 2, 2, pa, <<>>, <<>>),
                    EnduranceTask("B", 0, 4, 1, 2, 2, pb, <<>>, <<>>),
                    EnduranceTask("C", 0, 4, 1, 2, 2, pc3, <<>>, <<>>)>>
    /\ resources = <<>>
    /\ resource_manager = ManagerOf(FALSE, <<>>)
    /\ now = 0
    /\ InitRest

GraphByPriority ==
    /\ call' = [op |-> "get_tasks_by_priority", task_id |-> "",
                returned |-> get_tasks_by_priority(task_manager)]
    /\ UNCHANGED <<tasks, resources, resource_manager, task_manager>>
    /\ ObjectFrame

NextOrder == GraphAddTask \/ GraphRemoveTask \/ GraphByPriority

SpecOrder == InitOrder /\ [][NextOrder]_vars

\* ------------------------------------------------------------ the pending queue
ASSIGNED == "assigned"

\* the fields of a Task the queue reads
QueueTask(id, priority, status) == [id |-> id, priority |-> priority, status |-> status]

\* TaskManager(): [tasks, task_queue], tasks a dict from id to Task
EmptyQueueManager == [tasks |-> <<>>, task_queue |-> <<>>]

\* list.insert(index, x) and list.remove(x), python indices
InsertAt(q, index, x) == SubSeq(q, 1, index) \o <<x>> \o SubSeq(q, index + 1, Len(q))
RemoveFrom(q, x) == SelectSeq(q, LAMBDA y : y # x)
InQueue(q, x) == \E i \in 1..Len(q) : q[i] = x

\* the loop of _insert_into_queue from python index i on: insert_index after
\* the loop
RECURSIVE InsertIndex(_, _, _, _)
InsertIndex(tm, task, i, insert_index) ==
    IF i >= Len(tm.task_queue) THEN insert_index
    ELSE LET queued_task == tm.tasks[tm.task_queue[i + 1]]
         IN IF task.priority < queued_task.priority THEN i
            ELSE IF task.priority = queued_task.priority
                 THEN InsertIndex(tm, task, i + 1, insert_index)
                 ELSE InsertIndex(tm, task, i + 1, i + 1)

insert_into_queue(tm, task) ==
    IF InQueue(tm.task_queue, task.id) THEN tm
    ELSE [tm EXCEPT !.task_queue = InsertAt(@, InsertIndex(tm, task, 0, 0), task.id)]

TaskManager_add_task(tm, task) ==
    LET stored == [tm EXCEPT !.tasks = With(@, task.id, task)]
    IN IF task.status = PENDING THEN insert_into_queue(stored, task) ELSE stored

TaskManager_remove_task(tm, task_id) ==
    IF task_id \in DOMAIN tm.tasks
    THEN [returned |-> TRUE,
          manager |-> [tasks |-> Without(tm.tasks, task_id),
                       task_queue |-> RemoveFrom(tm.task_queue, task_id)]]
    ELSE [returned |-> FALSE, manager |-> tm]

TaskManager_update_task_status(tm, task_id, status) ==
    IF task_id \in DOMAIN tm.tasks
    THEN LET updated == [tm EXCEPT !.tasks[task_id].status = status]
         IN [returned |-> TRUE,
             manager |->
                IF status = PENDING /\ ~InQueue(tm.task_queue, task_id)
                THEN insert_into_queue(updated, updated.tasks[task_id])
                ELSE IF status # PENDING /\ InQueue(tm.task_queue, task_id)
                     THEN [updated EXCEPT !.task_queue = RemoveFrom(@, task_id)]
                     ELSE updated]
    ELSE [returned |-> FALSE, manager |-> tm]

\* self.tasks.get(task_queue[0]), None for an empty queue
TaskManager_get_next_task(tm) ==
    IF tm.task_queue # <<>>
    THEN IF tm.task_queue[1] \in DOMAIN tm.tasks
         THEN Some(tm.tasks[tm.task_queue[1]]) ELSE None
    ELSE None

QueueTaskIds == {"A", "B", "C"}
QueueStatuses == {PENDING, ASSIGNED}

InitQueue ==
    /\ tasks = <<>>
    /\ resources = <<>>
    /\ resource_manager = ManagerOf(FALSE, <<>>)
    /\ task_manager = EmptyQueueManager
    /\ now = 0
    /\ solver_status = "not_called"
    /\ call = None
    /\ alg = "none"
    /\ pc = "idle"
    /\ sorted_tasks = <<>>
    /\ idx = 0
    /\ run = GreedyRunStart(0)
    /\ result = None

QueueAddTask ==
    /\ \E id \in QueueTaskIds, priority \in 1..MaxPriority, status \in QueueStatuses :
          /\ task_manager' = TaskManager_add_task(task_manager,
                                                  QueueTask(id, priority, status))
          /\ call' = [op |-> "add_task", task_id |-> id, returned |-> None]
    /\ UNCHANGED <<tasks, resources, resource_manager>>
    /\ ObjectFrame

QueueUpdateTaskStatus ==
    /\ \E id \in QueueTaskIds, status \in QueueStatuses :
          LET out == TaskManager_update_task_status(task_manager, id, status)
          IN /\ task_manager' = out.manager
             /\ call' = [op |-> "update_task_status", task_id |-> id,
                         returned |-> out.returned]
    /\ UNCHANGED <<tasks, resources, resource_manager>>
    /\ ObjectFrame

QueueRemoveTask ==
    /\ \E id \in QueueTaskIds :
          LET out == TaskManager_remove_task(task_manager, id)
          IN /\ task_manager' = out.manager
             /\ call' = [op |-> "remove_task", task_id |-> id,
                         returned |-> out.returned]
    /\ UNCHANGED <<tasks, resources, resource_manager>>
    /\ ObjectFrame

QueueGetNextTask ==
    /\ call' = [op |-> "get_next_task", task_id |-> "",
                returned |-> TaskManager_get_next_task(task_manager)]
    /\ UNCHANGED <<tasks, resources, resource_manager, task_manager>>
    /\ ObjectFrame

NextQueue ==
    QueueAddTask \/ QueueUpdateTaskStatus \/ QueueRemoveTask \/ QueueGetNextTask

SpecQueue == InitQueue /\ [][NextQueue]_vars

\* ------------------------------------------------------------ properties
Validated == validate_inputs(tasks, resources) = <<>>

TaskIndex(id) == CHOOSE i \in 1..Len(tasks) : tasks[i].id = id
TaskOf(id) == tasks[TaskIndex(id)]
ScheduledIds(res) == {res.schedule[i].task_id : i \in 1..Len(res.schedule)}
UnscheduledIds(res) == {res.unscheduled_tasks[i] : i \in 1..Len(res.unscheduled_tasks)}
Targets(t, type) ==
    {t.task_constraints[i].target_task_id :
        i \in {j \in 1..Len(t.task_constraints) :
                 t.task_constraints[j].constraint_type = type}}

\* the whole placement loop on a run's local state, stopping at an exception
RECURSIVE GreedyRun(_, _, _)
GreedyRun(mgr, r, ts) ==
    IF ts = <<>> \/ r.raised # "none" THEN r
    ELSE GreedyRun(mgr, GreedyStep(mgr, r, Head(ts)), Tail(ts))

\* the manager with every resource as it was before any allocation
UnallocatedManager(mgr) ==
    [mgr EXCEPT !.resources = [rid \in DOMAIN mgr.resources |->
                                  Unallocated(mgr.resources[rid])]]

\* C1: in a schedule the greedy scheduler returns, every task with a
\* StartAfterEnd constraint has its target in the schedule too and starts at
\* or after the target's placed end.
C1_GreedyPrecedence ==
    (alg = "greedy" /\ Returned) =>
        \A i \in 1..Len(result.schedule) :
            \A target \in Targets(TaskOf(result.schedule[i].task_id), START_AFTER_END) :
                \E j \in 1..Len(result.schedule) :
                    /\ result.schedule[j].task_id = target
                    /\ result.schedule[i].start_time >= result.schedule[j].end_time

C1_Witness ==
    /\ alg = "greedy" /\ Returned
    /\ \E i \in 1..Len(result.schedule) :
          /\ Targets(TaskOf(result.schedule[i].task_id), START_AFTER_END) # {}
          /\ \E j \in 1..Len(result.schedule) :
                /\ result.schedule[j].task_id
                      \in Targets(TaskOf(result.schedule[i].task_id), START_AFTER_END)
                /\ result.schedule[i].start_time >= result.schedule[j].end_time

\* C3: every returned result accounts for every input task:
\* total_scheduled_tasks + total_unscheduled_tasks = len(tasks).
C3_Conservation ==
    Returned => total_tasks(result) = Len(tasks)

\* C4: on validated input the greedy scheduler always returns a result: no
\* exception escapes schedule().
C4_GreedyNeverRaises ==
    (alg = "greedy" /\ Validated) => pc # "raised"

\* C5: the greedy result is the one the same call gives when the manager's
\* resources hold no prior allocation.
C5_RunLocalLedger ==
    (alg = "greedy" /\ Returned /\ Validated) =>
        LET ref == GreedyRun(UnallocatedManager(resource_manager),
                             GreedyRunStart(now), SortedByPriority(tasks))
        IN /\ result.schedule = ref.scheduled_tasks
           /\ result.unscheduled_tasks = ref.unscheduled_tasks

\* C6: the dependency chain of the test harness is placed whole and in chain
\* order, whenever the run starts at or after base_time with the first task
\* still fitting its window.
C6_DependencyChain ==
    (alg = "greedy" /\ Returned /\ tasks = DependencyTasks
        /\ now + DependencyTasks[1].min_duration <= DependencyTasks[1].end_time) =>
        /\ result.status = SUCCESS
        /\ [i \in 1..Len(result.schedule) |-> result.schedule[i].task_id]
              = [i \in 1..4 |-> DependencyTasks[i].id]

\* C7: in the resource contention test of the harness exactly the priority-1
\* task is placed and the other two are unscheduled.
C7_ResourceContention ==
    (alg = "greedy" /\ Returned /\ tasks = ResourceConstrainedTasks) =>
        /\ Len(result.schedule) = 1
        /\ result.schedule[1].task_id = ResourceConstrainedTasks[1].id
        /\ result.unscheduled_tasks =
              <<ResourceConstrainedTasks[2].id, ResourceConstrainedTasks[3].id>>

C7_Witness ==
    /\ alg = "greedy" /\ Returned /\ tasks = ResourceConstrainedTasks
    /\ now > 0
    /\ Len(result.schedule) = 1
    /\ result.schedule[1].end_time <= ResourceConstrainedTasks[2].start_time + Minutes(10)
    /\ Len(result.unscheduled_tasks) = 2

\* a scheduled entry lies inside another one
Inside(d, c) == c.start_time <= d.start_time /\ d.end_time <= c.end_time

\* C8: in every result of the greedy scheduler, a task with a Contained
\* constraint is either placed inside the placed interval of its target, or
\* its id is in unscheduled_tasks.
C8_Containment ==
    (alg = "greedy" /\ Returned) =>
        \A k \in 1..Len(tasks) :
            \A target \in Targets(tasks[k], CONTAINED) :
                \/ tasks[k].id \in UnscheduledIds(result)
                \/ \E i \in 1..Len(result.schedule), j \in 1..Len(result.schedule) :
                      /\ result.schedule[i].task_id = tasks[k].id
                      /\ result.schedule[j].task_id = target
                      /\ Inside(result.schedule[i], result.schedule[j])

\* C2: in every Success result of the exact scheduler, a task with a
\* StartAfterEnd constraint on another input task starts, at its extracted
\* start time, no earlier than the extracted end time of that task.
C2_ExactPrecedence ==
    (Returned /\ alg = "milp" /\ result.status = SUCCESS) =>
        \A i \in 1..Len(result.schedule), j \in 1..Len(result.schedule) :
            result.schedule[j].task_id \in
                Targets(TaskOf(result.schedule[i].task_id), START_AFTER_END)
            => result.schedule[i].start_time >= result.schedule[j].end_time

\* C10: when validate_inputs reports errors, schedule() of either scheduler
\* returns Failed with an empty schedule and a message holding every
\* validation message, and no task is attempted for placement.
C10_ValidationGate ==
    LET errors == validate_inputs(tasks, resources)
    IN (pc # "idle" /\ errors # <<>>) =>
        /\ pc = "done"
        /\ result.status = FAILED
        /\ result.schedule = <<>>
        /\ result.message[1] = "Validation errors"
        /\ \A i \in 1..Len(errors) :
              \E j \in 1..Len(result.message[2]) : result.message[2][j] = errors[i]
        /\ idx = 0
        /\ run = GreedyRunStart(0)

C10_Witness ==
    /\ Returned
    /\ alg = "milp"
    /\ Len(validate_inputs(tasks, resources)) >= 3
    /\ tasks # <<>>

PriorityFollowsWindows ==
    \A i \in 1..Len(tasks), j \in 1..Len(tasks) :
        tasks[i].end_time < tasks[j].start_time =>
            \/ tasks[i].priority < tasks[j].priority
            \/ tasks[i].priority = tasks[j].priority /\ i < j

SolverGaveNoSolution ==
    /\ alg = "milp"
    /\ result \in {SolverUnavailable, SolverFailed(NOT_SOLVED), SolverFailed(INFEASIBLE)}

C11_ExactFailureHandling ==
    (alg = "milp" /\ pc # "idle" /\ Validated) =>
        /\ Returned
        /\ result.status \in {SUCCESS, FAILED}
        /\ solver_status # "not_called"
        /\ solver_status = NO_SOLVER => result = SolverUnavailable
        /\ solver_status \in SolutionStatuses =>
              \/ /\ result.status = SUCCESS
                 /\ Len(result.schedule) = Len(tasks)
              \/ /\ result.status = FAILED
                 /\ result.message = <<"Error in MILP scheduling", "ValueError">>
        /\ solver_status \notin SolutionStatuses \cup {NO_SOLVER} =>
              /\ result.status = FAILED
              /\ result.message = <<"Solver failed with status", solver_status>>

C11_Witness ==
    /\ alg = "milp" /\ Returned /\ Validated
    /\ solver_status = FEASIBLE
    /\ result.status = FAILED
    /\ result.message[1] = "Error in MILP scheduling"


\* C13: an Integer resource has 0 <= current_value <= max_capacity after any
\* allocate or deallocate that returned True, whatever the sign of the amount.
C13_IntegerBounds ==
    (/\ Called("allocate") \/ Called("deallocate")
     /\ call.returned
     /\ TheResource.resource_type = INTEGER
     /\ is_within_bounds(call.before))
        => is_within_bounds(TheResource)

\* C14: a CumulativeRate resource with both bounds set has
\* min_value <= current_value <= max_value after construction, after an
\* accepted allocate, after a deallocate that returned True and after
\* update_value.
C14_CumulativeBounds ==
    (/\ TheResource.resource_type = CUMULATIVE_RATE
     /\ TheResource.min_value # None /\ TheResource.max_value # None
     /\ \/ call = None
        \/ (Called("allocate") \/ Called("deallocate")) /\ call.returned
        \/ Called("update_value"))
        => is_within_bounds(TheResource)

\* the value allocate would leave is outside the bounds of the resource
OutsideBounds(r, value) ==
    IF r.resource_type = INTEGER
    THEN value < 0 \/ value > Val(r.max_capacity)
    ELSE \/ r.min_value # None /\ value < Val(r.min_value)
         \/ r.max_value # None /\ value > Val(r.max_value)

\* C15: allocate returns False and changes nothing when the status is not
\* Available or the value after the call would leave the bounds; otherwise it
\* returns True and adds exactly the amount to current_value.
C15_AllocateContract ==
    Called("allocate") =>
        LET before == call.before
            value == before.current_value + call.amount
        IN IF before.status # AVAILABLE \/ OutsideBounds(before, value)
           THEN ~call.returned /\ TheResource = before
           ELSE call.returned /\ TheResource.current_value = value

\* C19: from_dict(to_dict(r)) equals r, current_value, rate and status
\* included.
C19_ResourceRoundTrip ==
    Called("round_trip") =>
        /\ call.returned.raised = "none"
        /\ call.returned.resource = call.before

\* requirement i of the call cannot be applied to the manager as it was
Refused(mgr, req) ==
    \E i \in 1..Len(req) :
        \/ req[i][1] \notin DOMAIN mgr.resources
        \/ ~can_allocate(mgr.resources[req[i][1]], req[i][2])

\* C16: allocate_resources is all-or-nothing: with a requirement on an
\* unregistered resource or one whose can_allocate fails it returns False and
\* every resource and the whole usage map are as before the call; otherwise it
\* returns True and every requirement is applied and tracked.
C16_AllOrNothing ==
    Called("allocate_resources") =>
        IF Refused(call.before, call.req)
        THEN ~call.returned /\ resource_manager = call.before
        ELSE /\ call.returned
             /\ \A i \in 1..Len(call.req) :
                   LET rid == call.req[i][1]
                   IN /\ resource_manager.resources[rid].current_value =
                            call.before.resources[rid].current_value + call.req[i][2]
                      /\ call.task_id \in DOMAIN resource_manager.resource_usage[rid]
                      /\ resource_manager.resource_usage[rid][call.task_id] = call.req[i][2]

\* a refused call whose first requirement alone could be applied, by a task
\* that already held an allocation
C16_Witness ==
    /\ Called("allocate_resources")
    /\ ~call.returned
    /\ Len(call.req) = 2
    /\ call.req[1][1] \in DOMAIN call.before.resources
    /\ can_allocate(call.before.resources[call.req[1][1]], call.req[1][2])
    /\ get_task_resource_usage(call.before, call.task_id) # <<>>
    /\ resource_manager = call.before

\* C17: after allocate_resources(task_id, req) returned True the usage of
\* task_id equals req; a following deallocate_resources(task_id) returns
\* True, leaves the usage of task_id empty and restores every resource named
\* in req to the current_value and status it had before the allocation.
C17_LedgerRoundTrip ==
    /\ (Called("allocate_resources") /\ call.returned) =>
           get_task_resource_usage(resource_manager, call.task_id) = ReqDict(call.req)
    /\ (/\ Called("deallocate_resources")
        /\ call.after # None) =>
           /\ call.returned
           /\ get_task_resource_usage(resource_manager, call.task_id) = <<>>
           /\ \A i \in 1..Len(call.after.req) :
                 LET rid == call.after.req[i][1]
                 IN /\ resource_manager.resources[rid].current_value =
                          call.after.before.resources[rid].current_value
                    /\ resource_manager.resources[rid].status =
                          call.after.before.resources[rid].status

\* C12: a call of schedule() on either scheduler changes no resource's value,
\* rate or status, no entry of the resource manager's usage map, no task's
\* status and no entry of the task manager's dependency map.
C12_SchedulingFrame ==
    [][UNCHANGED <<resources, resource_manager, tasks, task_manager>>]_vars

\* a returned run that placed a task holding a resource of the manager
C12_Witness ==
    /\ Returned
    /\ resource_manager.set
    /\ \E i \in 1..Len(result.schedule) :
          /\ "gripper" \in DOMAIN result.schedule[i].resource_allocations
          /\ result.schedule[i].resource_allocations["gripper"] > 0
    /\ resource_manager.resources["gripper"].current_value = 0
    /\ resource_manager.resource_usage["gripper"] = <<>>
    /\ \A i \in 1..Len(tasks) : tasks[i].status = PENDING

\* C18: after any sequence of add_task, remove_task and add_task_constraint,
\* can_schedule_task(id, S) is true exactly when id is registered and every
\* target of a StartAfterEnd or Contained constraint now on the task is in S.
C18_DependencyMap ==
    \A task_id \in GraphIds, S \in SUBSET GraphIds :
        can_schedule_task(task_manager, task_id, S)
            <=> /\ task_id \in DOMAIN task_manager.tasks
                /\ Dependencies(task_manager.tasks[task_id]) \subseteq S

\* C20: from_dict(to_dict(x)) equals x field by field for every valid task
\* (ordered task constraints, resource constraints, resource impacts,
\* priority and status included), every scheduled task and every schedule
\* result (status, schedule order, unscheduled_tasks, message).
C20_TaskResultRoundTrip ==
    /\ Called("task_round_trip") =>
          /\ call.returned.raised = "none"
          /\ call.returned.task = call.before
    /\ Called("scheduled_task_round_trip") =>
          /\ call.returned.raised = "none"
          /\ call.returned.scheduled_task = call.before
    /\ Called("result_round_trip") =>
          /\ call.returned.raised = "none"
          /\ call.returned.result = call.before

\* C21: constructing a task raises, and returns no task, whenever
\* start_time >= end_time, max_duration > end_time - start_time,
\* min_duration > max_duration or preferred_duration is outside
\* [min_duration, max_duration]; a task that is returned has the fields it
\* was given and satisfies start_time < end_time and
\* min_duration <= preferred_duration <= max_duration <= end_time - start_time.
C21_TaskConstruction ==
    Called("EnduranceTask") =>
        LET a == call.args
            rejected == \/ a.start_time >= a.end_time
                        \/ a.max_duration > a.end_time - a.start_time
                        \/ a.min_duration > a.max_duration
                        \/ a.preferred_duration < a.min_duration
                        \/ a.preferred_duration > a.max_duration
        IN /\ rejected => call.returned.raised # "none"
           /\ call.returned.raised = "none" =>
                 /\ call.returned.task = a
                 /\ tasks = <<a>>
                 /\ a.start_time < a.end_time
                 /\ a.min_duration <= a.preferred_duration
                 /\ a.preferred_duration <= a.max_duration
                 /\ a.max_duration <= a.end_time - a.start_time

\* a call rejected only because max_duration exceeds the window
C21_Witness ==
    /\ Called("EnduranceTask")
    /\ call.returned.raised = "max_duration cannot exceed available time window"
    /\ call.args.start_time < call.args.end_time
    /\ call.args.min_duration <= call.args.preferred_duration
    /\ call.args.preferred_duration <= call.args.max_duration

\* C22: success_rate of a returned result equals
\* len(schedule) / (len(schedule) + len(unscheduled_tasks)), is 0 when both
\* are empty, and lies in [0, 1]; schedule() on an empty task list returns a
\* result whose success_rate is 0.
C22_SuccessRate ==
    Returned =>
        LET rate == success_rate(result)
            placed == Len(result.schedule)
            total == Len(result.schedule) + Len(result.unscheduled_tasks)
        IN /\ rate[2] > 0
           /\ rate[1] * total = placed * rate[2]
           /\ total = 0 => rate[1] = 0
           /\ 0 <= rate[1] /\ rate[1] <= rate[2]
           /\ tasks = <<>> => rate[1] = 0

\* schedule() on an empty task list has returned
C22_Witness ==
    /\ Returned
    /\ tasks = <<>>
    /\ result.status = FAILED
    /\ success_rate(result) = <<0, 1>>

\* C23: get_tasks_by_priority returns every registered task exactly once, in
\* ascending priority number, whatever the order in which the tasks were
\* added; tasks of equal priority are in the order of their registration.
C23_PriorityOrder ==
    Called("get_tasks_by_priority") =>
        LET out == call.returned
        IN /\ Len(out) = Cardinality(DOMAIN task_manager.tasks)
           /\ \A id \in DOMAIN task_manager.tasks :
                 \E i \in 1..Len(out) : out[i] = task_manager.tasks[id]
           /\ \A i, j \in 1..Len(out) :
                 i < j =>
                    /\ out[i].priority <= out[j].priority
                    /\ out[i].priority = out[j].priority =>
                          \E m, n \in 1..Len(task_manager.order) :
                              /\ m < n
                              /\ task_manager.order[m] = out[i].id
                              /\ task_manager.order[n] = out[j].id

\* three registered tasks, the one registered last of the smallest priority
\* number and returned first
C23_Witness ==
    /\ Called("get_tasks_by_priority")
    /\ Len(call.returned) = 3
    /\ call.returned[1].id = Last(task_manager.order)
    /\ call.returned[1].id # "C"
    /\ call.returned[2].priority = call.returned[3].priority

\* the step of the placement loop that attempts sorted_tasks[idx + 1]
AttemptStep == pc = "placing" /\ alg = "greedy" /\ idx' = idx + 1
Attempted == sorted_tasks[idx + 1]
PlacedInStep == Len(run'.scheduled_tasks) = Len(run.scheduled_tasks) + 1

\* the task passes the window, duration and resource checks at the cursor
PassesOwnChecks(mgr, task, r) ==
    try_schedule_task(mgr, [task EXCEPT !.task_constraints = <<>>],
                      r.current_time, r.scheduled_tasks).kind = "placed"

\* C24: a task with StartAfterEnd constraints only, every target already
\* placed in this run, that passes the window, duration and resource checks,
\* is placed exactly when its candidate start max(cursor, task.start_time) is
\* at or after every target's placed end.
C24_CandidateStart ==
    [][(/\ AttemptStep
        /\ Targets(Attempted, START_AFTER_END) # {}
        /\ Targets(Attempted, CONTAINED) = {}
        /\ \A target \in Targets(Attempted, START_AFTER_END) :
              FindScheduled(run.scheduled_tasks, target) # None
        /\ PassesOwnChecks(resource_manager, Attempted, run))
       => (PlacedInStep <=>
             \A target \in Targets(Attempted, START_AFTER_END) :
                 Max(run.current_time, Attempted.start_time)
                    >= Val(FindScheduled(run.scheduled_tasks, target)).end_time)]_vars

\* the loop's local lists, as sets of ids
RunScheduledIds == {run.scheduled_tasks[i].task_id : i \in 1..Len(run.scheduled_tasks)}
RunUnscheduledIds == {run.unscheduled_tasks[i] : i \in 1..Len(run.unscheduled_tasks)}
InLoop == alg = "greedy" /\ pc \in {"placing", "raised", "done"} /\ Validated

\* the ids a task depends on, directly and through other tasks of the input
DirectTargets(t) == Targets(t, START_AFTER_END) \cup Targets(t, CONTAINED)
RECURSIVE TargetsWithin(_, _)
TargetsWithin(ids, n) ==
    IF n = 0 THEN ids
    ELSE TargetsWithin(
           ids \cup UNION {DirectTargets(sorted_tasks[k]) :
                             k \in {m \in 1..Len(sorted_tasks) : sorted_tasks[m].id \in ids}},
           n - 1)
TransitiveTargets(t) == TargetsWithin(DirectTargets(t), Len(sorted_tasks))

\* the ids placed by the loop before it attempted sorted_tasks[i]
PlacedBefore(i) == {sorted_tasks[j].id : j \in 1..(i - 1)} \cap RunScheduledIds

\* C25: in the placement loop a task with a StartAfterEnd or Contained
\* constraint whose target was not placed before the task was attempted is in
\* unscheduled_tasks and not in the schedule; and every attempted task that
\* depends, directly or through other tasks, on an unscheduled task is
\* unscheduled too.
C25_NoReordering ==
    InLoop =>
      \A i \in 1..idx :
         LET t == sorted_tasks[i]
         IN /\ (DirectTargets(t) \ PlacedBefore(i) # {})
                  => t.id \in RunUnscheduledIds /\ t.id \notin RunScheduledIds
            /\ (TransitiveTargets(t) \cap RunUnscheduledIds # {})
                  => t.id \in RunUnscheduledIds

\* a finished run in which a task is unscheduled because a task it depends on
\* only through another task is unscheduled
C25_Witness ==
    /\ InLoop /\ pc = "done" /\ idx = Len(sorted_tasks) /\ idx > 0
    /\ \E i \in 1..idx :
          LET t == sorted_tasks[i]
          IN /\ (TransitiveTargets(t) \ DirectTargets(t)) \cap RunUnscheduledIds # {}
             /\ DirectTargets(t) \cap RunScheduledIds = {}
             /\ t.id \in RunUnscheduledIds

\* the tasks the loop placed before it attempted sorted_tasks[i]
ScheduledBefore(i) ==
    SelectSeq(run.scheduled_tasks, LAMBDA st : st.task_id \in PlacedBefore(i))

\* the constraint asks for more than the input resource can give at attempt i
ExceedsResource(c, i) ==
    \E k \in 1..Len(resources) :
       /\ resources[k].id = c.resource_id
       /\ resources[k].max_capacity # None
       /\ \/ c.min_amount > Val(resources[k].max_capacity)
                               - current_usage(ScheduledBefore(i), c.resource_id)
          \/ c.max_amount > Val(resources[k].max_capacity)

\* C26: in every greedy run, with the managers set or not, an attempted task
\* with a ResourceConstraint whose min_amount exceeds the resource's capacity
\* minus the amounts of the tasks placed earlier in the run, or whose
\* max_amount exceeds the resource's max_capacity, is not placed and its id
\* is in unscheduled_tasks.
C26_ResourceCheck ==
    InLoop =>
      \A i \in 1..idx :
         LET t == sorted_tasks[i]
         IN (\E n \in 1..Len(t.resource_constraints) :
                ExceedsResource(t.resource_constraints[n], i))
            => t.id \notin RunScheduledIds /\ t.id \in RunUnscheduledIds

\* C27: a placed task starts at max(cursor, task.start_time), not before its
\* window opens, and ends inside the window; its duration is the preferred
\* one when the rest of the window allows it, and otherwise the rest of the
\* window, at least min_duration and less than preferred_duration. A task
\* whose window ended before the cursor, or whose rest of window is shorter
\* than min_duration, goes to unscheduled_tasks.
C27_WindowAndDuration ==
    [][AttemptStep =>
         LET task == Attempted
             start == Max(run.current_time, task.start_time)
             available == task.end_time - start
         IN /\ PlacedInStep =>
                 LET st == run'.scheduled_tasks[Len(run'.scheduled_tasks)]
                 IN /\ st.task_id = task.id
                    /\ st.start_time = start /\ st.start_time >= task.start_time
                    /\ st.end_time = st.start_time + st.duration
                    /\ st.end_time <= task.end_time
                    /\ IF available >= task.preferred_duration
                       THEN st.duration = task.preferred_duration
                       ELSE /\ st.duration = available
                            /\ task.min_duration <= st.duration
                            /\ st.duration < task.preferred_duration
            /\ (run.current_time > task.end_time \/ available < task.min_duration)
                 => /\ run'.unscheduled_tasks = Append(run.unscheduled_tasks, task.id)
                    /\ run'.scheduled_tasks = run.scheduled_tasks]_vars

\* a first task was placed for less than its preferred duration and the
\* second, whose window ended before the cursor, went to unscheduled_tasks
C27_Witness ==
    /\ InLoop /\ idx = 2 /\ Len(run.scheduled_tasks) = 1
    /\ run.scheduled_tasks[1].task_id = sorted_tasks[1].id
    /\ run.scheduled_tasks[1].duration < sorted_tasks[1].preferred_duration
    /\ run.scheduled_tasks[1].duration >= sorted_tasks[1].min_duration
    /\ run.unscheduled_tasks = <<sorted_tasks[2].id>>
    /\ run.current_time > sorted_tasks[2].end_time

\* the placed tasks follow one another: each starts at or after `now` and at
\* or after the end of every task placed before it
Serial(scheduled) ==
    /\ \A i \in 1..Len(scheduled) : scheduled[i].start_time >= now
    /\ \A i, j \in 1..Len(scheduled) :
          i < j => scheduled[i].end_time <= scheduled[j].start_time

\* C28: the cursor starts at `now`, no attempt moves it back, and after a
\* placement it is the placed task's end; the placed tasks of the loop and of
\* every returned greedy schedule are serial, so no two of them overlap.
C28_SerialTimeline ==
    /\ [](InLoop => /\ run.current_time >= now
                    /\ Serial(run.scheduled_tasks)
                    /\ (Returned => Serial(result.schedule)))
    /\ [][/\ (pc = "idle" /\ pc' = "placing" /\ alg' = "greedy")
               => run'.current_time = now
          /\ AttemptStep =>
               /\ run'.current_time >= run.current_time
               /\ PlacedInStep =>
                    run'.current_time
                       = run'.scheduled_tasks[Len(run'.scheduled_tasks)].end_time]_vars

\* a returned schedule of two tasks, the second starting after a gap behind
\* the first, with the cursor at the second task's end
C28_Witness ==
    /\ InLoop /\ Returned /\ Len(result.schedule) = 2
    /\ result.schedule[1].start_time >= now
    /\ result.schedule[1].end_time < result.schedule[2].start_time
    /\ run.current_time = result.schedule[2].end_time

\* the place of a task id in the attempt order
SortedIndex(id) == CHOOSE i \in 1..Len(sorted_tasks) : sorted_tasks[i].id = id

\* a list of ids follows the attempt order
InAttemptOrder(ids) ==
    \A a, b \in 1..Len(ids) : a < b => SortedIndex(ids[a]) < SortedIndex(ids[b])

IdsOf(scheduled) == [i \in 1..Len(scheduled) |-> scheduled[i].task_id]

\* C29: the attempt order holds every input task once, in ascending priority
\* number and, among equal priorities, in input order; the tasks attempted so
\* far are the first ones of that order; the schedule and unscheduled_tasks,
\* in the loop and as returned, each follow it; and the returned lists are the
\* ones the tasks, the manager state and `now` determine.
C29_OrderAndDeterminism ==
    InLoop =>
      /\ Len(sorted_tasks) = Len(tasks)
      /\ \A i \in 1..Len(sorted_tasks) : sorted_tasks[i] = TaskOf(sorted_tasks[i].id)
      /\ \A i, j \in 1..Len(sorted_tasks) :
            i < j => /\ sorted_tasks[i].priority <= sorted_tasks[j].priority
                     /\ sorted_tasks[i].priority = sorted_tasks[j].priority
                          => TaskIndex(sorted_tasks[i].id) < TaskIndex(sorted_tasks[j].id)
      /\ RunScheduledIds \cup RunUnscheduledIds \subseteq {sorted_tasks[i].id : i \in 1..idx}
      /\ pc # "raised" =>
            RunScheduledIds \cup RunUnscheduledIds = {sorted_tasks[i].id : i \in 1..idx}
      /\ InAttemptOrder(IdsOf(run.scheduled_tasks))
      /\ InAttemptOrder(run.unscheduled_tasks)
      /\ Returned =>
            LET ref == GreedyRun(resource_manager, GreedyRunStart(now),
                                 SortedByPriority(tasks))
            IN /\ InAttemptOrder(IdsOf(result.schedule))
               /\ InAttemptOrder(result.unscheduled_tasks)
               /\ result.schedule = ref.scheduled_tasks
               /\ result.unscheduled_tasks = ref.unscheduled_tasks

\* a returned schedule of two tasks of equal priority, in input order
C29_Witness ==
    /\ InLoop /\ Returned /\ Len(tasks) = 2
    /\ tasks[1].priority = tasks[2].priority
    /\ IdsOf(result.schedule) = <<tasks[1].id, tasks[2].id>>

\* the number of places of a list that hold the id
Occurrences(ids, id) == Cardinality({i \in 1..Len(ids) : ids[i] = id})

DistinctIds == \A i, j \in 1..Len(tasks) : tasks[i].id = tasks[j].id => i = j

\* C30: when schedule() is over on validated input with pairwise distinct
\* ids, every input task was attempted, once, its id is exactly once in
\* exactly one of the schedule and unscheduled_tasks, and no other id is in
\* either list.
C30_SinglePass ==
    (alg = "greedy" /\ Validated /\ DistinctIds /\ pc \in {"done", "raised"}) =>
        /\ idx = Len(tasks)
        /\ \A i \in 1..Len(tasks) :
              Occurrences(IdsOf(run.scheduled_tasks), tasks[i].id)
                 + Occurrences(run.unscheduled_tasks, tasks[i].id) = 1
        /\ RunScheduledIds \cup RunUnscheduledIds
              \subseteq {tasks[i].id : i \in 1..Len(tasks)}
        /\ pc = "done"
        /\ result.schedule = run.scheduled_tasks
        /\ result.unscheduled_tasks = run.unscheduled_tasks

\* C31: a greedy result for validated input has status Success exactly when
\* unscheduled_tasks is empty, Partial exactly when the schedule and
\* unscheduled_tasks are both non-empty, Failed exactly when the schedule is
\* empty and unscheduled_tasks is not; no greedy result has status Timeout.
C31_StatusMapping ==
    (alg = "greedy" /\ Returned) =>
        /\ result.status # TIMEOUT
        /\ Validated =>
             /\ result.status = SUCCESS <=> result.unscheduled_tasks = <<>>
             /\ result.status = PARTIAL
                  <=> (result.schedule # <<>> /\ result.unscheduled_tasks # <<>>)
             /\ result.status = FAILED
                  <=> (result.schedule = <<>> /\ result.unscheduled_tasks # <<>>)

\* a Failed result for validated input: nothing placed, a task unscheduled
C31_Witness ==
    /\ alg = "greedy" /\ Returned /\ Validated
    /\ result.status = FAILED
    /\ result.schedule = <<>> /\ result.unscheduled_tasks # <<>>

\* C32: an Integer resource constructed Available and changed by allocate and
\* deallocate only has status InUse exactly when current_value >= max_capacity
\* and Available exactly when current_value < max_capacity.
C32_StatusTracksFullness ==
    (TheResource.resource_type = INTEGER /\ TheResource.status # OFFLINE) =>
        /\ TheResource.status = IN_USE
              <=> TheResource.current_value >= Val(TheResource.max_capacity)
        /\ TheResource.status = AVAILABLE
              <=> TheResource.current_value < Val(TheResource.max_capacity)

\* the constraint is the last one of the task on its resource
LastOnResource(task, n) ==
    \A m \in 1..Len(task.resource_constraints) :
        task.resource_constraints[m].resource_id
            = task.resource_constraints[n].resource_id => m <= n

\* C33: an exact result with status Success holds one scheduled task for each
\* input task, in input order, and no unscheduled task; each scheduled task
\* has the task's preferred_duration and, for every resource the task has a
\* constraint on, the constraint's min_amount as allocation, and no other
\* allocation.
C33_ExactCompleteness ==
    (alg = "milp" /\ Returned /\ result.status = SUCCESS) =>
        /\ result.unscheduled_tasks = <<>>
        /\ Len(result.schedule) = Len(tasks)
        /\ \A i \in 1..Len(tasks) :
              LET st == result.schedule[i]
                  rcs == tasks[i].resource_constraints
              IN /\ st.task_id = tasks[i].id
                 /\ st.duration = tasks[i].preferred_duration
                 /\ st.end_time - st.start_time = tasks[i].preferred_duration
                 /\ DOMAIN st.resource_allocations
                       = {rcs[n].resource_id : n \in 1..Len(rcs)}
                 /\ \A n \in 1..Len(rcs) :
                       LastOnResource(tasks[i], n)
                          => st.resource_allocations[rcs[n].resource_id]
                                = rcs[n].min_amount

\* a Success result of the exact scheduler for two tasks, one of them with a
\* resource constraint whose min_amount is below its max_amount
C33_Witness ==
    /\ alg = "milp" /\ Returned /\ result.status = SUCCESS
    /\ Len(result.schedule) = 2
    /\ \E i \in 1..2 :
          /\ tasks[i].resource_constraints # <<>>
          /\ tasks[i].resource_constraints[1].min_amount
                < tasks[i].resource_constraints[1].max_amount
          /\ result.schedule[i].resource_allocations
                [tasks[i].resource_constraints[1].resource_id]
                = tasks[i].resource_constraints[1].min_amount

\* C34: in an exact result with status Success for tasks whose preferred
\* durations are whole minutes, at least one, no two scheduled tasks overlap:
\* of any two, one ends at or before the other starts.
C34_ExactExclusion ==
    (/\ alg = "milp" /\ Returned /\ result.status = SUCCESS
     /\ \A i \in 1..Len(tasks) :
           /\ tasks[i].preferred_duration >= TicksPerMinute
           /\ tasks[i].preferred_duration % TicksPerMinute = 0)
    => \A i, j \in 1..Len(result.schedule) :
          i # j => \/ result.schedule[i].end_time <= result.schedule[j].start_time
                   \/ result.schedule[j].end_time <= result.schedule[i].start_time

\* C35: in an exact result with status Success, a scheduled task whose
\* start_min and start_max are both at least 0 starts at or after the task's
\* start_time and ends at or before its end_time.
C35_ExactWindows ==
    (alg = "milp" /\ Returned /\ result.status = SUCCESS) =>
        \A i \in 1..Len(result.schedule) :
            LET task == TaskOf(result.schedule[i].task_id)
            IN (StartMin(task, now) >= 0 /\ StartMax(task, now) >= 0)
                => /\ result.schedule[i].start_time >= task.start_time
                   /\ result.schedule[i].end_time <= task.end_time

\* the start times a task may take inside its window, not before the call
WindowStarts(task, t0) ==
    {s \in Max(task.start_time, t0)..(task.end_time - task.preferred_duration) : TRUE}

\* start times s[1..n] of the tasks at preferred duration that respect the
\* windows, the StartAfterEnd precedences and one task at a time
RespectingStarts(ts, t0) ==
    {s \in [1..Len(ts) -> UNION {WindowStarts(ts[i], t0) : i \in 1..Len(ts)}] :
        /\ \A i \in 1..Len(ts) : s[i] \in WindowStarts(ts[i], t0)
        /\ \A i \in 1..Len(ts) :
            \A c \in 1..Len(ts[i].task_constraints) :
                LET con == ts[i].task_constraints[c]
                    j == TargetIndex(ts, con.target_task_id)
                IN (con.constraint_type = START_AFTER_END /\ j # 0)
                    => s[i] >= s[j] + ts[j].preferred_duration
        /\ \A i, j \in 1..Len(ts) :
            i < j => \/ s[i] + ts[i].preferred_duration <= s[j]
                     \/ s[j] + ts[j].preferred_duration <= s[i]}

LatestEndOfStarts(s, ts) ==
    CHOOSE e \in {s[i] + ts[i].preferred_duration : i \in 1..Len(ts)} :
        \A i \in 1..Len(ts) : s[i] + ts[i].preferred_duration <= e

LatestEndOfSchedule(schedule) ==
    CHOOSE e \in {schedule[i].end_time : i \in 1..Len(schedule)} :
        \A i \in 1..Len(schedule) : schedule[i].end_time <= e

\* C36: when the solver reports Optimal and some start times respect the
\* windows, the StartAfterEnd precedences and the one-task-at-a-time
\* exclusion, the latest end time of the returned schedule is the least latest
\* end among all such start times
C36_ExactOptimality ==
    (alg = "milp" /\ Returned /\ solver_status = OPTIMAL
        /\ result.status = SUCCESS /\ result.schedule # <<>>
        /\ RespectingStarts(tasks, now) # {})
    => \A s \in RespectingStarts(tasks, now) :
           LatestEndOfSchedule(result.schedule) <= LatestEndOfStarts(s, tasks)

\* C37: the step of the placement loop that attempts a task with a Contained
\* constraint and min_duration > 0 never places it: the task's id is appended
\* to unscheduled_tasks and the schedule, the cursor and the raised exception
\* stay as they were.
C37_ContainedNeverPlaced ==
    [][(/\ AttemptStep
        /\ Targets(Attempted, CONTAINED) # {}
        /\ Attempted.min_duration > 0)
       => /\ ~PlacedInStep
          /\ run' = [run EXCEPT !.unscheduled_tasks = Append(@, Attempted.id)]]_vars

\* a finished run that placed the target of a Contained constraint, attempted
\* the constrained task of min_duration > 0 whose window lies inside the
\* target's placed interval, and left it unscheduled
C37_Witness ==
    /\ InLoop /\ pc = "done" /\ idx = Len(sorted_tasks)
    /\ \E i \in 1..idx :
          LET t == sorted_tasks[i]
          IN /\ Targets(t, CONTAINED) # {}
             /\ t.min_duration > 0
             /\ Targets(t, CONTAINED) \subseteq PlacedBefore(i)
             /\ check_task_constraints(t, run.scheduled_tasks) = <<>>
             /\ t.id \in RunUnscheduledIds
             /\ t.id \notin RunScheduledIds

\* the sum of the amounts resource_usage[rid] holds for the task ids of `ids`
RECURSIVE TrackedAmount(_, _)
TrackedAmount(usage, ids) ==
    IF ids = {} THEN 0
    ELSE LET id == CHOOSE id \in ids : TRUE
         IN usage[id] + TrackedAmount(usage, ids \ {id})

\* C38: for every Integer resource of the manager, after any sequence of
\* allocate_resources and deallocate_resources calls, current_value equals
\* the sum of the amounts resource_usage tracks for the resource; with no
\* task tracked current_value is 0.
C38_LedgerConservation ==
    \A rid \in DOMAIN resource_manager.resources :
        resource_manager.resources[rid].resource_type = INTEGER =>
            resource_manager.resources[rid].current_value =
                TrackedAmount(resource_manager.resource_usage[rid],
                              DOMAIN resource_manager.resource_usage[rid])

\* the place of an id in a queue that holds it
QueuePosition(q, id) == CHOOSE i \in 1..Len(q) : q[i] = id

\* C39: after every add_task, update_task_status and remove_task the pending
\* queue is in ascending order of priority number, the ids that stay in the
\* queue keep their order, and an id that enters the queue stands behind
\* every queued id of the same priority; get_next_task returns the task at
\* the head of the queue, None when the queue is empty.
C39_PendingQueueOrder ==
    [][LET before == task_manager.task_queue
           queue == task_manager'.task_queue
           priority(id) == task_manager'.tasks[id].priority
       IN /\ \A i, j \in 1..Len(queue) :
                i < j => priority(queue[i]) <= priority(queue[j])
          /\ \A i, j \in 1..Len(queue) :
                (i < j /\ InQueue(before, queue[i]) /\ InQueue(before, queue[j]))
                    => QueuePosition(before, queue[i]) < QueuePosition(before, queue[j])
          /\ \A i, j \in 1..Len(queue) :
                (~InQueue(before, queue[j]) /\ i # j
                    /\ priority(queue[i]) = priority(queue[j])) => i < j
          /\ (call'.op = "get_next_task") =>
                call'.returned = IF queue = <<>> THEN None
                                 ELSE Some(task_manager'.tasks[queue[1]])]_vars

====
